---- MODULE Spec2Model ----
(***************************************************************************)
(* A model of the tally engine and the ballot-matrix ingestion of gopolls. *)
(*                                                                         *)
(* The module holds several state machines over one set of variables; each *)
(* specification initialises the part of the state it drives and leaves    *)
(* the rest at its initial value:                                          *)
(*   SpecSchulze  a SchulzePoll under AddVote, TruncateVoters and Tally    *)
(*   SpecMedian   a MedianPoll under AddVote, TruncateVoters and Tally     *)
(*   SpecBasic    a BasicPoll under TruncateVoters and Tally                *)
(*   SpecIngest   PollMatrix.MatchEntries and FillPollsWithVotes with the   *)
(*                task of every poll column and the collector              *)
(*   SpecCustomized  FillPollsWithVotes with the parsers that              *)
(*                CustomizeParsersToMap makes for the polls, then          *)
(*                TruncateVoters on every poll                             *)
(*   SpecPolls    one poll of any of the three kinds under its operations  *)
(*   SpecOutline  one call of ParseCollectionSkeletons on lines drawn from *)
(*                a bounded set, then the skeleton converter on what it    *)
(*                returns                                                  *)
(*   SpecFunctions  one call of the skeleton converter, of a vote          *)
(*                generator or of ComputeMajority on arguments drawn from  *)
(*                bounded sets                                             *)
(*                                                                         *)
(* Weight is uint32 in the source.  The weights and the number of votes of *)
(* the model are small, so no sum of weights of the model comes near 2^32  *)
(* and the sums are plain sums.  The integers of TLC are 32-bit signed, so  *)
(* the sentinels NoWeight (MaxUint32) and NoMedianUnitValue (MaxUint64),   *)
(* each the largest value of its type in the source, are the largest       *)
(* integer of the model.                                                   *)
(***************************************************************************)
EXTENDS Integers, Sequences, FiniteSets, TLC

\* ------------------------------------------------------------------ bounds
\* Largest voter weight the model draws.
MaxWeight == 1
\* Largest number of options of a Schulze poll.
MaxOptions == 3
\* Largest number of votes a poll of the tally machines holds.
MaxVotes == 3

\* Largest value of a median vote and largest Value of a MedianPoll.
MaxValue == 2
\* Largest number of votes the MedianPoll of the model holds.
MaxMedianVotes == 3

\* Largest number of votes the BasicPoll of the model is created with.
MaxBasicVotes == 3

\* Largest number of body rows and of poll columns of a PollMatrix.
MaxRows == 2
MaxColumns == 2
MaxCents == 2
MaxDenominator == 3
MaxVotesSum == 42
\* Largest number of lines of an outline.
MaxLines == 6

VARIABLES
    schulzePoll,    \* the SchulzePoll: [NumOptions, Votes]
    schulzeRet,     \* what the last operation on schulzePoll returned
    medianPoll,     \* the MedianPoll: [Value, Votes, Sorted]
    medianRet,      \* what the last operation on medianPoll returned
    basicPoll,      \* the BasicPoll: [Votes]
    basicRet,       \* what the last operation on basicPoll returned
    matrix,         \* the PollMatrix: [Head, Body]
    polls,          \* the poll objects of the poll map, by poll name
    fill,           \* the FillPollsWithVotes call: arguments, collector
    tasks,          \* the task of every poll column of the call
    ch,             \* the result channel of fillAllPolls
    ingestRet,      \* what the last operation on matrix returned
    funcCall,       \* the call of a function: its name and arguments
    funcRet         \* what the call of funcCall returned

schulzeVars == <<schulzePoll, schulzeRet>>
medianVars == <<medianPoll, medianRet>>
basicVars == <<basicPoll, basicRet>>
ingestVars == <<matrix, polls, fill, tasks, ch, ingestRet>>
funcVars == <<funcCall, funcRet>>
vars == <<schulzeVars, medianVars, basicVars, ingestVars, funcVars>>

\* The value a variable holds in the machines that do not drive it.
Idle == [op |-> "idle"]

schulzeIdle == schulzePoll = Idle /\ schulzeRet = Idle
medianIdle == medianPoll = Idle /\ medianRet = Idle
basicIdle == basicPoll = Idle /\ basicRet = Idle
ingestIdle ==
    /\ matrix = Idle /\ polls = Idle /\ fill = Idle
    /\ tasks = Idle /\ ch = Idle /\ ingestRet = Idle
funcIdle == funcCall = Idle /\ funcRet = Idle

\* What a TruncateVoters call records of the call before it: the culprits of
\* that call when it was a TruncateVoters too, as a sequence of one element,
\* and the empty sequence otherwise.
CallBefore(ret) == IF ret.op = "TruncateVoters" THEN <<ret.culprits>> ELSE <<>>

\* ------------------------------------------------------------------ voters
NewVoter(name, weight) == [Name |-> name, Weight |-> weight]

VoterNames == <<"one", "two", "three", "four", "five", "six">>

\* The voters of the tally machines: one voter for every weight.
TallyVoters == {NewVoter(VoterNames[w + 1], w) : w \in 0..MaxWeight}

NoWeight == 2147483647

WeightMin(a, b) == IF a < b THEN a ELSE b

WeightMax(a, b) == IF a > b THEN a ELSE b

\* ------------------------------------------------------------------ Schulze
Options(n) == 0..(n - 1)

NewSchulzeMatrix(dimension) ==
    [i \in Options(dimension) |-> [j \in Options(dimension) |-> 0]]

NewSchulzeVote(voter, ranking) == [Voter |-> voter, Ranking |-> ranking]

NewSchulzePoll(numOptions, votes) == [NumOptions |-> numOptions, Votes |-> votes]

\* ranking[i] of the source, whose indices start at 0.
At(ranking, i) == ranking[i + 1]

\* One pass of the body of computeD's loop over the votes: the switch is
\* evaluated for every pair i < j, and entry [a][b] is entry [i][j] of the
\* pair when a < b and entry [j][i] of the pair when a > b.
\* computeDStrictEntry with a tie added to both entries of the pair.
computeDStrictEntryWithTies(ranking, w, a, b) ==
    LET i == IF a < b THEN a ELSE b
        j == IF a < b THEN b ELSE a
    IN  IF a = b THEN 0
        ELSE IF At(ranking, i) < At(ranking, j) THEN (IF a = i THEN w ELSE 0)
        ELSE IF At(ranking, j) < At(ranking, i) THEN (IF a = j THEN w ELSE 0)
        ELSE w

computeDStrictEntry(ranking, w, a, b) ==
    LET i == IF a < b THEN a ELSE b
        j == IF a < b THEN b ELSE a
    IN  IF a = b THEN 0
        ELSE IF At(ranking, i) < At(ranking, j) THEN (IF a = i THEN w ELSE 0)
        ELSE IF At(ranking, j) < At(ranking, i) THEN (IF a = j THEN w ELSE 0)
        ELSE 0

\* computeDNonStrictEntry with a tie added to neither entry of the pair.
computeDNonStrictEntryWithoutTies(ranking, w, a, b) ==
    LET i == IF a < b THEN a ELSE b
        j == IF a < b THEN b ELSE a
    IN  IF a = b THEN 0
        ELSE IF At(ranking, i) < At(ranking, j) THEN (IF a = i THEN w ELSE 0)
        ELSE IF At(ranking, j) < At(ranking, i) THEN (IF a = j THEN w ELSE 0)
        ELSE 0

\* computeDNonStrictEntry with a tie added to entry [i][j] of the pair only.
computeDNonStrictEntryOneWay(ranking, w, a, b) ==
    LET i == IF a < b THEN a ELSE b
        j == IF a < b THEN b ELSE a
    IN  IF a = b THEN 0
        ELSE IF At(ranking, i) < At(ranking, j) THEN (IF a = i THEN w ELSE 0)
        ELSE IF At(ranking, j) < At(ranking, i) THEN (IF a = j THEN w ELSE 0)
        ELSE (IF a = i THEN w ELSE 0)

computeDNonStrictEntry(ranking, w, a, b) ==
    LET i == IF a < b THEN a ELSE b
        j == IF a < b THEN b ELSE a
    IN  IF a = b THEN 0
        ELSE IF At(ranking, i) < At(ranking, j) THEN (IF a = i THEN w ELSE 0)
        ELSE IF At(ranking, j) < At(ranking, i) THEN (IF a = j THEN w ELSE 0)
        ELSE w

\* computeD from vote number k on, with the matrices and the sum so far.
RECURSIVE computeDFrom(_, _, _, _, _)
computeDFrom(poll, k, res, resNonStrict, sum) ==
    IF k > Len(poll.Votes) THEN <<res, resNonStrict, sum>>
    ELSE
        LET vote == poll.Votes[k]
            n == poll.NumOptions
            w == vote.Voter.Weight
            ranking == vote.Ranking
        IN  IF Len(ranking) # n
            THEN computeDFrom(poll, k + 1, res, resNonStrict, sum + w)
            ELSE computeDFrom(poll, k + 1,
                    [a \in Options(n) |-> [b \in Options(n) |->
                        res[a][b] + computeDStrictEntry(ranking, w, a, b)]],
                    [a \in Options(n) |-> [b \in Options(n) |->
                        resNonStrict[a][b] + computeDNonStrictEntry(ranking, w, a, b)]],
                    sum + w)

\* computeD with the weight of a vote added to the sum after the test of the
\* length of its ranking.
computeDSumOfValid(poll) ==
    LET valid == SelectSeq(poll.Votes, LAMBDA vote : Len(vote.Ranking) = poll.NumOptions)
    IN  computeDFrom([poll EXCEPT !.Votes = valid], 1,
                     NewSchulzeMatrix(poll.NumOptions),
                     NewSchulzeMatrix(poll.NumOptions), 0)

computeD(poll) ==
    computeDFrom(poll, 1, NewSchulzeMatrix(poll.NumOptions),
                 NewSchulzeMatrix(poll.NumOptions), 0)

\* The first loop nest of computeP.
computePInit(n, d) ==
    [i \in Options(n) |-> [j \in Options(n) |->
        IF i # j /\ d[i][j] > d[j][i] THEN d[i][j] ELSE 0]]

\* computePStep with the strength of a path taken from its first edge alone.
computePStepFirstEdge(res, i, j, k) ==
    IF i # j /\ i # k /\ j # k
    THEN [res EXCEPT ![j][k] = WeightMax(res[j][k], res[j][i])]
    ELSE res

\* One iteration (i, j, k) of the second loop nest of computeP, in place.
computePStep(res, i, j, k) ==
    IF i # j /\ i # k /\ j # k
    THEN [res EXCEPT ![j][k] = WeightMax(res[j][k], WeightMin(res[j][i], res[i][k]))]
    ELSE res

\* The second loop nest from iteration number t on; iteration t has
\* i = t \div n^2, j = (t \div n) % n, k = t % n, the order of the loops.
RECURSIVE computePFrom(_, _, _)
computePFrom(n, res, t) ==
    IF t >= n * n * n THEN res
    ELSE computePFrom(n, computePStep(res, t \div (n * n), (t \div n) % n, t % n), t + 1)

computeP(poll, d) ==
    computePFrom(poll.NumOptions, computePInit(poll.NumOptions, d), 0)

\* numWins that counts the options that beat option i.
numWinsCountsLosses(n, p, i) ==
    Cardinality({j \in Options(n) : i # j /\ p[j][i] > p[i][j]})

\* numWins of option i in rankP.
numWins(n, p, i) == Cardinality({j \in Options(n) : i # j /\ p[i][j] > p[j][i]})

\* The first loop of rankP from option i on: candidateWins maps a number of
\* wins to the options that have it, numWinsKeys lists the keys in the order
\* they were first seen.
RECURSIVE rankPCollect(_, _, _, _, _)
rankPCollect(n, p, i, candidateWins, numWinsKeys) ==
    IF i >= n THEN <<candidateWins, numWinsKeys>>
    ELSE
        LET key == numWins(n, p, i)
            has == key \in DOMAIN candidateWins
            winsList == IF has THEN candidateWins[key] ELSE <<>>
        IN  rankPCollect(n, p, i + 1,
                [x \in (DOMAIN candidateWins) \cup {key} |->
                    IF x = key THEN Append(winsList, i) ELSE candidateWins[x]],
                IF has THEN numWinsKeys ELSE Append(numWinsKeys, key))

\* sort.Slice(numWinsKeys, cmp) with cmp = ">": the keys are distinct, so the
\* sorted slice is the one descending arrangement of them.
RECURSIVE insertDescending(_, _)
insertDescending(sorted, x) ==
    IF sorted = <<>> THEN <<x>>
    ELSE IF x > sorted[1] THEN <<x>> \o sorted
    ELSE <<sorted[1]>> \o insertDescending(Tail(sorted), x)

\* sortDescending with the sort left out: the keys stay as first seen.
sortDescendingUnsorted(keys) == keys

RECURSIVE sortDescending(_)
sortDescending(keys) ==
    IF keys = <<>> THEN <<>>
    ELSE insertDescending(sortDescending(Tail(keys)), keys[1])

rankP(poll, p) ==
    LET collected == rankPCollect(poll.NumOptions, p, 0, <<>>, <<>>)
        candidateWins == collected[1]
        numWinsKeys == sortDescending(collected[2])
    IN  [g \in 1..Len(numWinsKeys) |-> candidateWins[numWinsKeys[g]]]

NewSchulzeResult(d, dNonStrict, p, rankedGroups, votesSum) ==
    [D |-> d, DNonStrict |-> dNonStrict, P |-> p,
     RankedGroups |-> rankedGroups, WeightSum |-> votesSum]

SchulzeTallyResult(poll) ==
    LET dd == computeD(poll)
        p == computeP(poll, dd[1])
    IN  NewSchulzeResult(dd[1], dd[2], p, rankP(poll, p), dd[3])

\* TruncateVoters that returns the culprits latest first.
SchulzeCulpritsLatestFirst(poll) ==
    LET found == SelectSeq(poll.Votes, LAMBDA vote : poll.NumOptions # Len(vote.Ranking))
    IN  [x \in 1..Len(found) |-> found[Len(found) + 1 - x]]

\* TruncateVoters: the culprits in poll order, and the poll with the votes of
\* the right length in their order.
SchulzeCulprits(poll) ==
    SelectSeq(poll.Votes, LAMBDA vote : poll.NumOptions # Len(vote.Ranking))

\* TruncateVoters that reports the culprits and keeps every vote.
SchulzeFilteredNothing(poll) == poll.Votes

SchulzeFiltered(poll) ==
    IF Len(SchulzeCulprits(poll)) > 0
    THEN SelectSeq(poll.Votes, LAMBDA vote : poll.NumOptions = Len(vote.Ranking))
    ELSE poll.Votes

\* The rankings a vote of the model carries for a poll with n options.  The
\* code compares the positions of a ranking only with < and =, so a ranking
\* behaves like the dense ranking of the same weak order (positions 0..k with
\* none left out): the model draws every dense ranking of length n, and two
\* rankings of a wrong length (the code reads only the length of those).
ValidRankings(n) ==
    {r \in [1..n -> Options(n)] :
        \A x \in 1..n : r[x] = 0 \/ \E y \in 1..n : r[y] = r[x] - 1}

WrongLengthRankings(n) ==
    {[x \in 1..(n + 1) |-> 0]} \cup (IF n > 0 THEN {[x \in 1..(n - 1) |-> 0]} ELSE {})

SchulzeInit ==
    /\ medianIdle /\ basicIdle /\ ingestIdle /\ funcIdle
    /\ \E n \in 0..MaxOptions : schulzePoll = NewSchulzePoll(n, <<>>)
    /\ schulzeRet = [op |-> "NewSchulzePoll"]

SchulzeAddVote ==
    /\ Len(schulzePoll.Votes) < MaxVotes
    /\ \E voter \in TallyVoters,
          ranking \in ValidRankings(schulzePoll.NumOptions)
                        \cup WrongLengthRankings(schulzePoll.NumOptions) :
            schulzePoll' = [schulzePoll EXCEPT
                !.Votes = Append(@, NewSchulzeVote(voter, ranking))]
    /\ schulzeRet' = [op |-> "AddVote"]
    /\ UNCHANGED <<medianVars, basicVars, ingestVars, funcVars>>

SchulzeTruncateVoters ==
    /\ schulzeRet' = [op |-> "TruncateVoters", before |-> schulzePoll.Votes,
                      culprits |-> SchulzeCulprits(schulzePoll),
                      callBefore |-> CallBefore(schulzeRet)]
    /\ schulzePoll' = [schulzePoll EXCEPT !.Votes = SchulzeFiltered(schulzePoll)]
    /\ UNCHANGED <<medianVars, basicVars, ingestVars, funcVars>>

SchulzeTally ==
    /\ schulzeRet' = [op |-> "Tally", res |-> SchulzeTallyResult(schulzePoll)]
    /\ UNCHANGED <<schulzePoll, medianVars, basicVars, ingestVars, funcVars>>

SchulzeNext == SchulzeAddVote \/ SchulzeTruncateVoters \/ SchulzeTally

SpecSchulze == SchulzeInit /\ [][SchulzeNext]_vars

\* ------------------------------------------------------------------- Median
NoMedianUnitValue == 2147483647

NewMedianVote(voter, value) == [Voter |-> voter, Value |-> value]

NewMedianPoll(value, votes) == [Value |-> value, Votes |-> votes, Sorted |-> FALSE]

\* TruncateVoters: a copy of every vote whose value is above poll.Value, in
\* vote order, and the votes with those values set to poll.Value.
\* TruncateVoters that reports the votes themselves, not copies made before
\* the value is set to poll.Value.
MedianCulpritsAliased(poll) ==
    LET over == SelectSeq(poll.Votes, LAMBDA vote : vote.Value > poll.Value)
    IN  [x \in 1..Len(over) |-> NewMedianVote(over[x].Voter, poll.Value)]

MedianCulprits(poll) ==
    LET over == SelectSeq(poll.Votes, LAMBDA vote : vote.Value > poll.Value)
    IN  [x \in 1..Len(over) |-> NewMedianVote(over[x].Voter, over[x].Value)]

MedianTruncated(poll) ==
    [x \in 1..Len(poll.Votes) |->
        IF poll.Votes[x].Value > poll.Value
        THEN [poll.Votes[x] EXCEPT !.Value = poll.Value]
        ELSE poll.Votes[x]]

\* sort.SliceStable with less(i, j) = Votes[i].Value > Votes[j].Value: a vote
\* is placed behind every vote that is not less than it.
RECURSIVE insertStable(_, _)
insertStable(sorted, vote) ==
    IF sorted = <<>> THEN <<vote>>
    ELSE IF vote.Value > sorted[1].Value THEN <<vote>> \o sorted
    ELSE <<sorted[1]>> \o insertStable(Tail(sorted), vote)

RECURSIVE sortStableFrom(_, _, _)
sortStableFrom(votes, k, sorted) ==
    IF k > Len(votes) THEN sorted
    ELSE sortStableFrom(votes, k + 1, insertStable(sorted, votes[k]))

SortVotes(poll) ==
    [poll EXCEPT !.Votes = sortStableFrom(poll.Votes, 1, <<>>), !.Sorted = TRUE]

AssureSorted(poll) == IF ~poll.Sorted THEN SortVotes(poll) ELSE poll

RECURSIVE WeightSumFrom(_, _, _)
WeightSumFrom(votes, k, sum) ==
    IF k > Len(votes) THEN sum
    ELSE WeightSumFrom(votes, k + 1, sum + votes[k].Voter.Weight)

MedianWeightSum(poll) == WeightSumFrom(poll.Votes, 1, 0)

RECURSIVE GCD(_, _)
GCD(a, b) == IF b = 0 THEN a ELSE GCD(b, a % b)

\* big.NewRat and the normalisation of big.Rat: the fraction a/b in lowest
\* terms.
NewRat(a, b) == [num |-> a \div GCD(a, b), den |-> b \div GCD(a, b)]

\* ComputeMajority with the quotient rounded up.
ComputeMajorityRoundedUp(num, den, votesSum) ==
    LET quotient == (votesSum * num) \div den
    IN  IF quotient * den = votesSum * num THEN quotient ELSE quotient + 1

\* ComputeMajority for the rational num/den (in lowest terms, as big.NewRat
\* keeps it): the product votesSum * num/den is brought to lowest terms and
\* its numerator divided by its denominator.
ComputeMajority(num, den, votesSum) ==
    LET g == GCD(votesSum * num, den)
        productNum == (votesSum * num) \div g
        productDenom == den \div g
    IN  productNum \div productDenom

NewMedianResult ==
    [WeightSum |-> NoWeight, RequiredMajority |-> NoWeight,
     MajorityValue |-> NoMedianUnitValue, ValueDetails |-> <<>>]

\* addDetail: ValueDetails is a function from the values voted for to the list
\* of their voters.
addDetail(result, value, voter) ==
    LET has == value \in DOMAIN result.ValueDetails
        votersList == IF has THEN result.ValueDetails[value] ELSE <<>>
    IN  [result EXCEPT !.ValueDetails =
            [v \in (DOMAIN result.ValueDetails) \cup {value} |->
                IF v = value THEN Append(votersList, voter)
                ELSE result.ValueDetails[v]]]

\* The loop of Tally over the votes from vote number k on.
RECURSIVE MedianTallyFrom(_, _, _, _, _, _)
MedianTallyFrom(votes, k, majority, res, currentWeight, foundMajority) ==
    IF k > Len(votes) THEN res
    ELSE
        LET vote == votes[k]
            detailed == addDetail(res, vote.Value, vote.Voter)
            weight == currentWeight + vote.Voter.Weight
        IN  IF ~foundMajority /\ weight > majority
            THEN MedianTallyFrom(votes, k + 1, majority,
                    [detailed EXCEPT !.MajorityValue = vote.Value], weight, TRUE)
            ELSE MedianTallyFrom(votes, k + 1, majority, detailed, weight,
                    foundMajority)

\* The result of Tally(majority) on a poll that AssureSorted has gone over.
MedianTallyResult(poll, majority) ==
    LET weightSum == MedianWeightSum(poll)
        required == IF majority = NoWeight
                    THEN ComputeMajority(1, 2, weightSum)
                    ELSE majority
    IN  MedianTallyFrom(poll.Votes, 1, required,
            [NewMedianResult EXCEPT !.WeightSum = weightSum,
                                    !.RequiredMajority = required],
            0, FALSE)

\* GetVotersForValue; the order of the lists of different values is the
\* iteration order of a Go map, so the result is modelled as a set of voters.
GetVotersForValue(result, referenceValue) ==
    UNION {{result.ValueDetails[value][x] : x \in 1..Len(result.ValueDetails[value])} :
            value \in {v \in DOMAIN result.ValueDetails : v >= referenceValue}}

\* The majorities the model passes to Tally.
Majorities == {NoWeight} \cup (0..(MaxWeight * MaxMedianVotes))

MedianInit ==
    /\ schulzeIdle /\ basicIdle /\ ingestIdle /\ funcIdle
    /\ \E value \in 0..MaxValue : medianPoll = NewMedianPoll(value, <<>>)
    /\ medianRet = [op |-> "NewMedianPoll"]

MedianAddVote ==
    /\ Len(medianPoll.Votes) < MaxMedianVotes
    /\ \E voter \in TallyVoters, value \in 0..MaxValue :
        medianPoll' = [medianPoll EXCEPT !.Votes = Append(@, NewMedianVote(voter, value))]
    /\ medianRet' = [op |-> "AddVote"]
    /\ UNCHANGED <<schulzeVars, basicVars, ingestVars, funcVars>>

MedianTruncateVoters ==
    /\ medianRet' = [op |-> "TruncateVoters", before |-> medianPoll.Votes,
                     culprits |-> MedianCulprits(medianPoll),
                     callBefore |-> CallBefore(medianRet)]
    /\ medianPoll' = [medianPoll EXCEPT !.Votes = MedianTruncated(medianPoll)]
    /\ UNCHANGED <<schulzeVars, basicVars, ingestVars, funcVars>>

MedianTally ==
    \E majority \in Majorities :
        /\ UNCHANGED <<schulzeVars, basicVars, ingestVars, funcVars>>
        /\ medianPoll' = AssureSorted(medianPoll)
        /\ medianRet' = [op |-> "Tally", majority |-> majority,
                         before |-> medianPoll.Votes,
                         res |-> MedianTallyResult(AssureSorted(medianPoll), majority)]

MedianNext == MedianAddVote \/ MedianTruncateVoters \/ MedianTally

SpecMedian == MedianInit /\ [][MedianNext]_vars

\* --------------------------------------------------------------- BasicPoll
No == 0
Aye == 1
Abstention == 2

\* Choices that are none of the three answers (BasicPollAnswer is an int8).
InvalidChoices == {-1, 42}

IsValid(a) == a \in {No, Aye, Abstention}

NewBasicVote(voter, choice) == [Voter |-> voter, Choice |-> choice]

NewBasicPoll(votes) == [Votes |-> votes]

\* TruncateVoters: the votes with an invalid choice, and the votes that stay.
BasicCulprits(poll) == SelectSeq(poll.Votes, LAMBDA vote : ~IsValid(vote.Choice))

BasicFiltered(poll) ==
    IF Len(BasicCulprits(poll)) > 0
    THEN SelectSeq(poll.Votes, LAMBDA vote : IsValid(vote.Choice))
    ELSE poll.Votes

NewBasicPollCounter ==
    [NumNoes |-> 0, NumAyes |-> 0, NumAbstention |-> 0, NumInvalid |-> 0]

\* Increase with the default case left out: an invalid choice counts nowhere.
IncreaseValidOnly(counter, choice, inc) ==
    IF choice = No THEN [counter EXCEPT !.NumNoes = @ + inc]
    ELSE IF choice = Aye THEN [counter EXCEPT !.NumAyes = @ + inc]
    ELSE IF choice = Abstention THEN [counter EXCEPT !.NumAbstention = @ + inc]
    ELSE counter

Increase(counter, choice, inc) ==
    IF choice = No THEN [counter EXCEPT !.NumNoes = @ + inc]
    ELSE IF choice = Aye THEN [counter EXCEPT !.NumAyes = @ + inc]
    ELSE IF choice = Abstention THEN [counter EXCEPT !.NumAbstention = @ + inc]
    ELSE [counter EXCEPT !.NumInvalid = @ + inc]

NewBasicPollResult ==
    [NumberVoters |-> NewBasicPollCounter, WeightedVotes |-> NewBasicPollCounter]

increaseCounters(res, vote) ==
    [NumberVoters |-> Increase(res.NumberVoters, vote.Choice, 1),
     WeightedVotes |-> Increase(res.WeightedVotes, vote.Choice, vote.Voter.Weight)]

RECURSIVE BasicTallyFrom(_, _, _)
BasicTallyFrom(votes, k, res) ==
    IF k > Len(votes) THEN res
    ELSE BasicTallyFrom(votes, k + 1, increaseCounters(res, votes[k]))

BasicTallyResult(poll) == BasicTallyFrom(poll.Votes, 1, NewBasicPollResult)

\* The votes a BasicPoll of the model is created with.
BasicVotes ==
    {NewBasicVote(voter, choice) :
        voter \in TallyVoters, choice \in {No, Aye, Abstention} \cup InvalidChoices}

BasicInit ==
    /\ schulzeIdle /\ medianIdle /\ ingestIdle /\ funcIdle
    /\ \E n \in 0..MaxBasicVotes : \E votes \in [1..n -> BasicVotes] :
        basicPoll = NewBasicPoll(votes)
    /\ basicRet = [op |-> "NewBasicPoll"]

BasicTruncateVoters ==
    /\ basicRet' = [op |-> "TruncateVoters", before |-> basicPoll.Votes,
                    culprits |-> BasicCulprits(basicPoll),
                    callBefore |-> CallBefore(basicRet)]
    /\ basicPoll' = [basicPoll EXCEPT !.Votes = BasicFiltered(basicPoll)]
    /\ UNCHANGED <<schulzeVars, medianVars, ingestVars, funcVars>>

BasicTally ==
    /\ basicRet' = [op |-> "Tally", res |-> BasicTallyResult(basicPoll)]
    /\ UNCHANGED <<basicPoll, schulzeVars, medianVars, ingestVars, funcVars>>

BasicNext == BasicTruncateVoters \/ BasicTally

SpecBasic == BasicInit /\ [][BasicNext]_vars

\* ------------------------------------------------------ a poll of any kind
\* One poll, a SchulzePoll, a MedianPoll or a BasicPoll, under the operations
\* of its kind.
PollsInit == SchulzeInit \/ MedianInit \/ BasicInit

PollsNext ==
    \/ schulzePoll # Idle /\ SchulzeNext
    \/ medianPoll # Idle /\ MedianNext
    \/ basicPoll # Idle /\ BasicNext

SpecPolls == PollsInit /\ [][PollsNext]_vars

\* --------------------------------------------------------------- ingestion
\* An error value: its type and what its message names.  NoError is nil.
NoError == [kind |-> "nil", msg |-> <<>>]
NewPollingSyntaxError(msg) == [kind |-> "PollingSyntaxError", msg |-> msg]
NewPollingSemanticError(msg) == [kind |-> "PollingSemanticError", msg |-> msg]
NewDuplicateError(msg) == [kind |-> "DuplicateError", msg |-> msg]
NewPollTypeError(msg) == [kind |-> "PollTypeError", msg |-> msg]

\* A VoterMap or PollMap is its set of names (the objects are those of Roster
\* and polls), or nil.
NilMap == [nil |-> TRUE, names |-> {}]
MakeMap(names) == [nil |-> FALSE, names |-> names]

\* The voters the caller allows, the name of a voter it does not know, and
\* the same for the polls.
RosterNames == {"one", "two"}
UnknownVoter == "nine"
Roster == [name \in RosterNames |-> NewVoter(name, 1)]
PollNames == {"p1", "p2"}
UnknownPoll == "p9"

\* The cells of the model: a blank cell, a number and a malformed vote.
Cells == {<<" ">>, <<"1">>, <<"x">>}

\* A matrix holds a head, [voter, poll1, ..., pollN] or nothing, and body
\* rows [voter name, cell, ..., cell] of the length of the head or of another
\* length.
Heads ==
    {<<>>} \cup
    UNION {{<<"voter">> \o names : names \in [1..k -> PollNames \cup {UnknownPoll}]} :
            k \in 0..MaxColumns}

RowsOfLength(n) ==
    {<<name>> \o cells :
        name \in RosterNames \cup {UnknownVoter}, cells \in [1..(n - 1) -> Cells]}

WrongLengthRows(n) ==
    {<<name>> \o [x \in 1..k |-> <<" ">>] :
        name \in RosterNames, k \in (0..MaxColumns) \ {n - 1}}

Bodies(head) ==
    LET rows == IF head = <<>> THEN RowsOfLength(1)
                ELSE RowsOfLength(Len(head)) \cup WrongLengthRows(Len(head))
    IN  UNION {[1..n -> rows] : n \in 0..MaxRows}

\* ---- MatchEntries
\* The duplicate check left out.
alreadyFoundNever(name, matched) == FALSE

alreadyFound(name, matched) == name \in matched

\* The loop over the body from row r on; matched holds the voters found.
RECURSIVE matchVoters(_, _, _, _)
matchVoters(m, voters, r, matched) ==
    IF r > Len(m.Body) THEN [err |-> NoError, matched |-> matched]
    ELSE
        LET row == m.Body[r]
            voterName == row[1]
        IN  IF Len(row) # Len(m.Head)
            THEN [err |-> NewPollingSyntaxError(<<"number of columns">>),
                  matched |-> matched]
            ELSE IF alreadyFound(voterName, matched)
            THEN [err |-> NewDuplicateError(<<"voter", voterName>>),
                  matched |-> matched]
            ELSE IF voterName \in voters
            THEN matchVoters(m, voters, r + 1, matched \cup {voterName})
            ELSE [err |-> NewPollingSemanticError(<<"voter", voterName>>),
                  matched |-> matched]

\* The loop over Head[1:] from head entry c on.
RECURSIVE matchPolls(_, _, _, _)
matchPolls(m, pollMap, c, matched) ==
    IF c > Len(m.Head) THEN [err |-> NoError, matched |-> matched]
    ELSE
        LET pollName == m.Head[c]
        IN  IF alreadyFound(pollName, matched)
            THEN [err |-> NewDuplicateError(<<"poll", pollName>>),
                  matched |-> matched]
            ELSE IF pollName \in pollMap
            THEN matchPolls(m, pollMap, c + 1, matched \cup {pollName})
            ELSE [err |-> NewPollingSemanticError(<<"poll", pollName>>),
                  matched |-> matched]

\* MatchEntries(voters, polls) on the matrix m; the deferred function makes
\* both maps nil when an error is returned.
MatchEntries(m, voters, pollMap) ==
    LET failed(err) == [matchedVoters |-> NilMap, matchedPolls |-> NilMap, err |-> err]
    IN  IF Len(m.Head) = 0
        THEN failed(NewPollingSyntaxError(<<"at least one column">>))
        ELSE
            LET inBody == matchVoters(m, voters, 1, {})
            IN  IF inBody.err # NoError THEN failed(inBody.err)
                ELSE
                    LET inHead == matchPolls(m, pollMap, 2, {})
                    IN  IF inHead.err # NoError THEN failed(inHead.err)
                        ELSE [matchedVoters |-> MakeMap(inBody.matched),
                              matchedPolls |-> MakeMap(inHead.matched),
                              err |-> NoError]

\* ---- polls, parsers and policies of the call
IgnoreEmptyVote == 0
RaiseErrorEmptyVote == 1
AddAsAyeEmptyVote == 2
AddAsNoEmptyVote == 3
AddAsAbstentionEmptyVote == 4

MedianPollType == "median-poll"
SchulzePollType == "schulze-poll"

PollType(poll) == IF "NumOptions" \in DOMAIN poll THEN SchulzePollType ELSE MedianPollType

MedianVoteType == "median-vote"
SchulzeVoteType == "schulze-vote"

VoteType(vote) == IF "Ranking" \in DOMAIN vote THEN SchulzeVoteType ELSE MedianVoteType

\* No vote: the nil AbstractVote.
NilVote == [nil |-> TRUE]

NewSchulzeAbstention(numOptions) == [x \in 1..numOptions |-> 0]

\* NewSchulzeNo whose loop runs over every option, the last one included.
NewSchulzeNoAllOnes(numOptions) == [x \in 1..numOptions |-> 1]

NewSchulzeNo(numOptions) == [x \in 1..numOptions |-> IF x - 1 < numOptions - 1 THEN 1 ELSE 0]

NewSchulzeAye(numOptions) == [x \in 1..numOptions |-> IF x - 1 = numOptions - 1 THEN 1 ELSE 0]

\* GenerateVoteFromBasicAnswer of a MedianPoll and of a SchulzePoll.
GenerateVoteFromBasicAnswer(poll, voter, answer) ==
    IF PollType(poll) = MedianPollType
    THEN IF answer = No THEN [vote |-> NewMedianVote(voter, 0), err |-> NoError]
         ELSE IF answer = Aye THEN [vote |-> NewMedianVote(voter, poll.Value), err |-> NoError]
         ELSE IF answer = Abstention
         THEN [vote |-> NilVote, err |-> NewPollTypeError(<<"abstention is not supported">>)]
         ELSE [vote |-> NilVote, err |-> NewPollTypeError(<<"invalid poll answer">>)]
    ELSE IF answer = No
         THEN [vote |-> NewSchulzeVote(voter, NewSchulzeNo(poll.NumOptions)), err |-> NoError]
         ELSE IF answer = Aye
         THEN [vote |-> NewSchulzeVote(voter, NewSchulzeAye(poll.NumOptions)), err |-> NoError]
         ELSE IF answer = Abstention
         THEN [vote |-> NewSchulzeVote(voter, NewSchulzeAbstention(poll.NumOptions)),
               err |-> NoError]
         ELSE [vote |-> NilVote, err |-> NewPollTypeError(<<"invalid poll answer">>)]

\* AddVote that puts the vote in front of the votes of the poll.
AddVoteInFront(poll, vote) ==
    IF (PollType(poll) = MedianPollType /\ VoteType(vote) = MedianVoteType)
       \/ (PollType(poll) = SchulzePollType /\ VoteType(vote) = SchulzeVoteType)
    THEN [poll |-> [poll EXCEPT !.Votes = <<vote>> \o @], err |-> NoError]
    ELSE [poll |-> poll, err |-> NewPollTypeError(<<"can't add vote", PollType(poll)>>)]

\* AddVote of a MedianPoll and of a SchulzePoll: a vote of the poll's own
\* type is appended, another one refused.
AddVote(poll, vote) ==
    IF PollType(poll) = MedianPollType /\ VoteType(vote) = MedianVoteType
    THEN [poll |-> [poll EXCEPT !.Votes = Append(@, vote)], err |-> NoError]
    ELSE IF PollType(poll) = SchulzePollType /\ VoteType(vote) = SchulzeVoteType
    THEN [poll |-> [poll EXCEPT !.Votes = Append(@, vote)], err |-> NoError]
    ELSE [poll |-> poll, err |-> NewPollTypeError(<<"can't add vote", PollType(poll)>>)]

ErrEmptyPollPolicy == NewPollTypeError(<<"empty votes are not allowed">>)

\* fmt.Errorf with the verb %w: an error that wraps another one.
Errorf(msg, wrapped) == [kind |-> "wrapError", msg |-> msg, wraps |-> wrapped]

\* ErrPoll, the sentinel every error that embeds PollError matches.
ErrPoll == [kind |-> "internalErrorSentinelType", msg |-> <<"gopolls error">>]

\* errors.Is: err or an error it wraps is the target, or embeds PollError
\* when the target is ErrPoll.
RECURSIVE ErrorsIs(_, _)
ErrorsIs(err, target) ==
    IF err = NoError THEN FALSE
    ELSE IF err = target THEN TRUE
    ELSE IF target = ErrPoll /\ err.kind \in {"PollTypeError", "PollingSyntaxError",
                                                "PollingSemanticError"}
    THEN TRUE
    ELSE IF err.kind = "wrapError" THEN ErrorsIs(err.wraps, target)
    ELSE FALSE

\* GenerateEmptyVoteForVoter; the error of RaiseErrorEmptyVote wraps
\* ErrEmptyPollPolicy and names the voter and the type of the poll.
GenerateEmptyVoteForVoter(policy, voter, poll) ==
    IF policy = IgnoreEmptyVote THEN [vote |-> NilVote, err |-> NoError]
    ELSE IF policy = RaiseErrorEmptyVote
    THEN [vote |-> NilVote,
          err |-> Errorf(<<voter.Name, PollType(poll)>>, ErrEmptyPollPolicy)]
    ELSE IF policy = AddAsAyeEmptyVote THEN GenerateVoteFromBasicAnswer(poll, voter, Aye)
    ELSE IF policy = AddAsNoEmptyVote THEN GenerateVoteFromBasicAnswer(poll, voter, No)
    ELSE IF policy = AddAsAbstentionEmptyVote
    THEN GenerateVoteFromBasicAnswer(poll, voter, Abstention)
    ELSE [vote |-> NilVote, err |-> NewPollTypeError(<<"invalid policy">>)]

\* strings.TrimSpace on a string given as the sequence of its characters.
RECURSIVE TrimLeft(_)
TrimLeft(s) == IF s # <<>> /\ s[1] = " " THEN TrimLeft(Tail(s)) ELSE s

RECURSIVE TrimRight(_)
TrimRight(s) ==
    IF s # <<>> /\ s[Len(s)] = " " THEN TrimRight(SubSeq(s, 1, Len(s) - 1)) ELSE s

TrimSpace(s) == TrimRight(TrimLeft(s))

\* strconv.Atoi on the characters of the model: "1" is the only digit.
IsNumber(s) == s # <<>> /\ \A x \in 1..Len(s) : s[x] = "1"

RECURSIVE Atoi(_)
Atoi(s) == IF s = <<>> THEN 0 ELSE 10 * Atoi(SubSeq(s, 1, Len(s) - 1)) + 1

\* The parsers of the call: a MedianVoteParser over SimpleEuroHandler, whose
\* maxValue is off, and a SchulzeVoteParser of the length of its poll.
NewMedianVoteParser == [maxValue |-> NoMedianUnitValue]
NewSchulzeVoteParser(length) == [Length |-> length]

\* SimpleEuroHandler.Parse: a number of euros, after a minus sign or not, is
\* that many hundred cents; the strings of the model have no cents and no
\* currency symbol.
SimpleEuroParse(s) ==
    LET trimmed == TrimSpace(s)
        minus == trimmed # <<>> /\ trimmed[1] = "-"
        euroStr == IF minus THEN TrimLeft(Tail(trimmed)) ELSE trimmed
    IN  IF IsNumber(euroStr)
        THEN [ValueCents |-> (IF minus THEN -1 ELSE 1) * 100 * Atoi(euroStr),
              err |-> NoError]
        ELSE [ValueCents |-> 0,
              err |-> [kind |-> "error", msg |-> <<"not a valid currency string">>]]

\* strings.FieldsFunc with the separators of parseSchulzeRanking: the fields
\* between runs of separators, none of them empty.
IsSeparator(r) == r \in {",", "/"}

RECURSIVE FieldsFrom(_, _, _)
FieldsFrom(s, k, field) ==
    LET closed == IF field = <<>> THEN <<>> ELSE <<field>>
    IN  IF k > Len(s) THEN closed
        ELSE IF IsSeparator(s[k]) THEN closed \o FieldsFrom(s, k + 1, <<>>)
        ELSE FieldsFrom(s, k + 1, Append(field, s[k]))

FieldsFunc(s) == FieldsFrom(s, 1, <<>>)

\* parseSchulzeRanking.
parseSchulzeRanking(s, length) ==
    LET split == FieldsFunc(s)
    IN  IF length >= 0 /\ Len(split) # length
        THEN [ranking |-> <<>>, err |-> NewPollingSemanticError(<<"schulze ranking length">>)]
        ELSE IF \E x \in 1..Len(split) : ~IsNumber(TrimSpace(split[x]))
        THEN [ranking |-> <<>>, err |-> NewPollingSyntaxError(<<"can't parse schulze ranking">>)]
        ELSE [ranking |-> [x \in 1..Len(split) |-> Atoi(TrimSpace(split[x]))],
              err |-> NoError]

\* ParseFromString of the two parsers.
ParseFromString(parser, s, voter) ==
    IF "Length" \in DOMAIN parser
    THEN LET parsed == parseSchulzeRanking(s, parser.Length)
         IN  IF parsed.err # NoError THEN [vote |-> NilVote, err |-> parsed.err]
             ELSE [vote |-> NewSchulzeVote(voter, parsed.ranking), err |-> NoError]
    ELSE LET currency == SimpleEuroParse(s)
         IN  IF currency.err # NoError
             THEN [vote |-> NilVote, err |-> NewPollingSyntaxError(<<"error parsing currency">>)]
             ELSE IF currency.ValueCents < 0
             THEN [vote |-> NilVote, err |-> NewPollingSemanticError(<<"negative value">>)]
             ELSE IF parser.maxValue # NoMedianUnitValue /\ currency.ValueCents > parser.maxValue
             THEN [vote |-> NilVote, err |-> NewPollingSemanticError(<<"greater than max value">>)]
             ELSE [vote |-> NewMedianVote(voter, currency.ValueCents), err |-> NoError]

\* generateSingleVote without the test for an empty string.
generateSingleVoteParsesAll(poll, parser, policy, voter, s) ==
    ParseFromString(parser, TrimSpace(s), voter)

generateSingleVote(poll, parser, policy, voter, s) ==
    IF TrimSpace(s) = <<>> THEN GenerateEmptyVoteForVoter(policy, voter, poll)
    ELSE ParseFromString(parser, TrimSpace(s), voter)

\* The poll map of the call: a MedianPoll and a SchulzePoll of one option,
\* both without votes.
NewPolls == [name \in PollNames |->
                IF name = "p1" THEN NewMedianPoll(MaxValue, <<>>)
                ELSE NewSchulzePoll(1, <<>>)]

\* The parser maps the model calls with: a parser for every poll, or none for
\* poll p2.
AllParsers == [name \in PollNames |->
                IF name = "p1" THEN NewMedianVoteParser ELSE NewSchulzeVoteParser(1)]

ParserMaps == {AllParsers, [name \in {"p1"} |-> AllParsers[name]]}

GeneratePoliciesMap(policy, names) == [name \in names |-> policy]

Policies == {IgnoreEmptyVote, RaiseErrorEmptyVote, AddAsAyeEmptyVote,
             AddAsNoEmptyVote, AddAsAbstentionEmptyVote}

\* The policy maps the model calls with: one policy for every poll, or a
\* policy for poll p1 only.
PolicyMaps ==
    {GeneratePoliciesMap(policy, PollNames) : policy \in Policies}
        \cup {GeneratePoliciesMap(IgnoreEmptyVote, {"p1"})}

\* ---- FillPollsWithVotes
\* The check for missing entries left out.
missingRefusedNever(allowMissing, actual, allowed) == FALSE

missingRefused(allowMissing, actual, allowed) ==
    ~allowMissing /\ Cardinality(actual.names) # Cardinality(allowed)

\* The errors the loop over actualPolls can return: it ranges over a map, so
\* any poll without a parser or, having a parser, without a policy can be the
\* one it meets first.
noParserOrPolicy(actualPolls, parsers, policies) ==
    {NewPollingSemanticError(<<"no parser", name>>) :
        name \in {n \in actualPolls.names : n \notin DOMAIN parsers}}
    \cup
    {NewPollingSemanticError(<<"no policy", name>>) :
        name \in {n \in actualPolls.names : n \in DOMAIN parsers /\ n \notin DOMAIN policies}}

\* What FillPollsWithVotes has in actualVoters, actualPolls and err when it
\* comes to fillAllPolls (err nil) or returns before it.
fillChecks(m, pollMap, voters, parsers, policies, allowMissingVoters, allowMissingPolls) ==
    LET matched == MatchEntries(m, voters, pollMap)
        with(err) == [actualVoters |-> matched.matchedVoters,
                      actualPolls |-> matched.matchedPolls, err |-> err]
    IN  IF matched.err # NoError THEN {with(matched.err)}
        ELSE IF missingRefused(allowMissingVoters, matched.matchedVoters, voters)
        THEN {with(NewPollingSemanticError(<<"voters are missing">>))}
        ELSE IF missingRefused(allowMissingPolls, matched.matchedPolls, pollMap)
        THEN {with(NewPollingSemanticError(<<"polls are missing">>))}
        ELSE IF noParserOrPolicy(matched.matchedPolls, parsers, policies) # {}
        THEN {with(err) : err \in noParserOrPolicy(matched.matchedPolls, parsers, policies)}
        ELSE {with(NoError)}

\* ---- fillAllPolls
\* The collector keeps the first error it receives.
keepsFirstError(colRes, smallestPollIndex) ==
    colRes.err # NoError /\ smallestPollIndex < 0

\* The collector keeps the error of a result when it has none yet or the
\* result is of a smaller column than the one it keeps.
keepsError(colRes, smallestPollIndex) ==
    colRes.err # NoError /\ (smallestPollIndex < 0 \/ colRes.column < smallestPollIndex)

numPolls == Len(matrix.Head) - 1

\* The collector's loop with one turn less than there are poll columns.
lastReceiveEarly(i) == i + 2 >= numPolls

\* The collector's loop for i := 0; i < numPolls; i++: the receive of turn i
\* is the last one.
lastReceive(i) == i + 1 >= numPolls

IngestInit ==
    /\ schulzeIdle /\ medianIdle /\ basicIdle /\ funcIdle
    /\ \E head \in Heads : \E body \in Bodies(head) : matrix = [Head |-> head, Body |-> body]
    /\ polls = NewPolls
    /\ fill = [pc |-> "idle"]
    /\ tasks = <<>>
    /\ ch = <<>>
    /\ ingestRet = [op |-> "PollMatrix"]

IngestMatchEntries ==
    /\ fill.pc = "idle"
    /\ ingestRet' = [op |-> "MatchEntries",
                     res |-> MatchEntries(matrix, RosterNames, PollNames)]
    /\ UNCHANGED <<matrix, polls, fill, tasks, ch>>
    /\ UNCHANGED <<schulzeVars, medianVars, basicVars, funcVars>>

\* The call of FillPollsWithVotes up to the start of the tasks; it returns
\* here when a check fails or the head names no poll.
IngestFillPollsWithVotes ==
    /\ fill.pc = "idle"
    /\ \E allowMissingVoters, allowMissingPolls \in BOOLEAN,
          parsers \in ParserMaps, policies \in PolicyMaps :
        \E checked \in fillChecks(matrix, PollNames, RosterNames, parsers, policies,
                                  allowMissingVoters, allowMissingPolls) :
            LET returns == [op |-> "FillPollsWithVotes",
                            allowMissingVoters |-> allowMissingVoters,
                            allowMissingPolls |-> allowMissingPolls,
                            actualVoters |-> checked.actualVoters,
                            actualPolls |-> checked.actualPolls,
                            err |-> checked.err]
            IN  IF checked.err # NoError
                THEN /\ fill' = [pc |-> "failed"]
                     /\ tasks' = <<>>
                     /\ ingestRet' = returns
                ELSE /\ fill' = [pc |-> IF numPolls = 0 THEN "done" ELSE "collect",
                                 returns |-> returns,
                                 parsers |-> parsers, policies |-> policies,
                                 i |-> 0, err |-> NoError, smallestPollIndex |-> -1,
                                 received |-> <<>>]
                     /\ tasks' = [c \in 1..numPolls |->
                                    [pc |-> IF matrix.Body = <<>> THEN "send" ELSE "run",
                                     row |-> 1, err |-> NoError]]
                     /\ ingestRet' = IF numPolls = 0 THEN returns ELSE [op |-> "running"]
    /\ UNCHANGED <<matrix, polls, ch>>
    /\ UNCHANGED <<schulzeVars, medianVars, basicVars, funcVars>>

\* A turn of the loop of generateVotesForPoll that, when its row fails, takes
\* the votes of the rows before out of the poll again.
IngestTaskRowRollsBack ==
    /\ fill.pc = "collect"
    /\ \E c \in 1..numPolls :
        /\ tasks[c].pc = "run"
        /\ LET pollName == matrix.Head[c + 1]
               row == matrix.Body[tasks[c].row]
               voter == Roster[row[1]]
               generated == generateSingleVote(polls[pollName], fill.parsers[pollName],
                                fill.policies[pollName], voter, row[c + 1])
               added == AddVote(polls[pollName], generated.vote)
               next == IF tasks[c].row = Len(matrix.Body)
                       THEN [pc |-> "send", row |-> tasks[c].row, err |-> NoError]
                       ELSE [pc |-> "run", row |-> tasks[c].row + 1, err |-> NoError]
               fails(err) == [pc |-> "send", row |-> tasks[c].row, err |-> err]
               rolledBack == [polls EXCEPT ![pollName].Votes = <<>>]
           IN  IF generated.err # NoError
               THEN tasks' = [tasks EXCEPT ![c] = fails(generated.err)] /\ polls' = rolledBack
               ELSE IF generated.vote = NilVote
               THEN tasks' = [tasks EXCEPT ![c] = next] /\ polls' = polls
               ELSE IF added.err # NoError
               THEN tasks' = [tasks EXCEPT ![c] = fails(added.err)] /\ polls' = rolledBack
               ELSE /\ tasks' = [tasks EXCEPT ![c] = next]
                    /\ polls' = [polls EXCEPT ![pollName] = added.poll]
    /\ UNCHANGED <<matrix, fill, ch, ingestRet>>
    /\ UNCHANGED <<schulzeVars, medianVars, basicVars, funcVars>>

\* One turn of the loop of generateVotesForPoll in the task of column c (the
\* poll Head[c + 1]); after the last row, or with an error, the task goes on
\* to send its result.
IngestTaskRow ==
    /\ fill.pc = "collect"
    /\ \E c \in 1..numPolls :
        /\ tasks[c].pc = "run"
        /\ LET pollName == matrix.Head[c + 1]
               row == matrix.Body[tasks[c].row]
               voter == Roster[row[1]]
               generated == generateSingleVote(polls[pollName], fill.parsers[pollName],
                                fill.policies[pollName], voter, row[c + 1])
               added == AddVote(polls[pollName], generated.vote)
               next == IF tasks[c].row = Len(matrix.Body)
                       THEN [pc |-> "send", row |-> tasks[c].row, err |-> NoError]
                       ELSE [pc |-> "run", row |-> tasks[c].row + 1, err |-> NoError]
               fails(err) == [pc |-> "send", row |-> tasks[c].row, err |-> err]
           IN  IF generated.err # NoError
               THEN tasks' = [tasks EXCEPT ![c] = fails(generated.err)] /\ polls' = polls
               ELSE IF generated.vote = NilVote
               THEN tasks' = [tasks EXCEPT ![c] = next] /\ polls' = polls
               ELSE IF added.err # NoError
               THEN tasks' = [tasks EXCEPT ![c] = fails(added.err)] /\ polls' = polls
               ELSE /\ tasks' = [tasks EXCEPT ![c] = next]
                    /\ polls' = [polls EXCEPT ![pollName] = added.poll]
    /\ UNCHANGED <<matrix, fill, ch, ingestRet>>
    /\ UNCHANGED <<schulzeVars, medianVars, basicVars, funcVars>>

\* The task of column c sends its result; the channel holds one result.
IngestTaskSend ==
    /\ fill.pc = "collect"
    /\ Len(ch) < 1
    /\ \E c \in 1..numPolls :
        /\ tasks[c].pc = "send"
        /\ ch' = Append(ch, [column |-> c - 1, name |-> matrix.Head[c + 1],
                             err |-> tasks[c].err])
        /\ tasks' = [tasks EXCEPT ![c].pc = "done"]
    /\ UNCHANGED <<matrix, polls, fill, ingestRet>>
    /\ UNCHANGED <<schulzeVars, medianVars, basicVars, funcVars>>

\* The collector receives a result; with the last one fillAllPolls and
\* FillPollsWithVotes return.
IngestCollect ==
    /\ fill.pc = "collect"
    /\ ch # <<>>
    /\ LET colRes == Head(ch)
           keeps == keepsError(colRes, fill.smallestPollIndex)
           err == IF keeps THEN colRes.err ELSE fill.err
           last == lastReceive(fill.i)
       IN  /\ fill' = [fill EXCEPT
                        !.pc = IF last THEN "done" ELSE "collect",
                        !.i = fill.i + 1,
                        !.err = err,
                        !.smallestPollIndex = IF keeps THEN colRes.column ELSE @,
                        !.received = Append(@, colRes.column)]
           /\ ingestRet' = IF last THEN [fill.returns EXCEPT !.err = err] ELSE ingestRet
    /\ ch' = Tail(ch)
    /\ UNCHANGED <<matrix, polls, tasks>>
    /\ UNCHANGED <<schulzeVars, medianVars, basicVars, funcVars>>

IngestNext ==
    \/ IngestMatchEntries
    \/ IngestFillPollsWithVotes
    \/ IngestTaskRow
    \/ IngestTaskSend
    \/ IngestCollect

SpecIngest == IngestInit /\ [][IngestNext]_vars

\* ---- CustomizeParsersToMap, FillPollsWithVotes, TruncateVoters
\* GenerateDefaultParserTemplateMap: the templates of the two poll types.
DefaultParserTemplateMap ==
    [type \in {MedianPollType, SchulzePollType} |->
        IF type = MedianPollType THEN NewMedianVoteParser ELSE NewSchulzeVoteParser(-1)]

WithMaxValue(parser, maxValue) == [maxValue |-> maxValue]
WithLength(parser, length) == [Length |-> length]

\* CustomizeForPoll that returns the template as it is.
CustomizeForPollKeepsTemplate(parser, poll) == parser

\* CustomizeForPoll of the two parsers; a template is looked up by the type
\* of its poll, so the types agree.
CustomizeForPoll(parser, poll) ==
    IF "Length" \in DOMAIN parser THEN WithLength(parser, poll.NumOptions)
    ELSE WithMaxValue(parser, poll.Value)

CustomizeParsersToMap(pollMap, templates) ==
    [name \in DOMAIN pollMap |->
        CustomizeForPoll(templates[PollType(pollMap[name])], pollMap[name])]

\* The polls of these calls: a MedianPoll whose ceiling is one euro and a
\* SchulzePoll of two options, both without votes.
OneEuro == SimpleEuroParse(<<"1">>).ValueCents

TwoOptionPolls == [name \in PollNames |->
                    IF name = "p1" THEN NewMedianPoll(OneEuro, <<>>)
                    ELSE NewSchulzePoll(2, <<>>)]

\* The cells of these calls: nothing, one euro or a ranking of one position,
\* eleven euros, and a ranking of two positions.
RankingCells == {<<" ">>, <<"1">>, <<"1", "1">>, <<"1", "/", "1">>}

\* The grids of these calls: a head MatchEntries accepts and rows of its
\* length for different voters.
CustomizedGrids ==
    LET heads == {head \in Heads :
                    MatchEntries([Head |-> head, Body |-> <<>>], RosterNames, PollNames).err
                        = NoError}
        rows(head) == {<<name>> \o cells :
                        name \in RosterNames, cells \in [1..(Len(head) - 1) -> RankingCells]}
        bodies(head) == {body \in UNION {[1..n -> rows(head)] : n \in 0..MaxRows} :
                            \A x, y \in 1..Len(body) : body[x][1] = body[y][1] => x = y}
    IN  UNION {{[Head |-> head, Body |-> body] : body \in bodies(head)} : head \in heads}

CustomizedInit ==
    /\ schulzeIdle /\ medianIdle /\ basicIdle /\ funcIdle
    /\ matrix \in CustomizedGrids
    /\ polls = TwoOptionPolls
    /\ fill = [pc |-> "idle"]
    /\ tasks = <<>>
    /\ ch = <<>>
    /\ ingestRet = [op |-> "PollMatrix"]

\* CustomizeParsersToMap with the default templates, and FillPollsWithVotes
\* with the parsers it returns, up to the start of the tasks.
IngestFillCustomized ==
    /\ fill.pc = "idle"
    /\ \E allowMissingVoters, allowMissingPolls \in BOOLEAN, policies \in PolicyMaps :
        LET parsers == CustomizeParsersToMap(polls, DefaultParserTemplateMap)
        IN  \E checked \in fillChecks(matrix, PollNames, RosterNames, parsers, policies,
                                      allowMissingVoters, allowMissingPolls) :
                LET returns == [op |-> "FillPollsWithVotes",
                                allowMissingVoters |-> allowMissingVoters,
                                allowMissingPolls |-> allowMissingPolls,
                                actualVoters |-> checked.actualVoters,
                                actualPolls |-> checked.actualPolls,
                                err |-> checked.err]
                IN  IF checked.err # NoError
                    THEN /\ fill' = [pc |-> "failed"]
                         /\ tasks' = <<>>
                         /\ ingestRet' = returns
                    ELSE /\ fill' = [pc |-> IF numPolls = 0 THEN "done" ELSE "collect",
                                     returns |-> returns,
                                     parsers |-> parsers, policies |-> policies,
                                     i |-> 0, err |-> NoError, smallestPollIndex |-> -1,
                                     received |-> <<>>]
                         /\ tasks' = [c \in 1..numPolls |->
                                        [pc |-> IF matrix.Body = <<>> THEN "send" ELSE "run",
                                         row |-> 1, err |-> NoError]]
                         /\ ingestRet' = IF numPolls = 0 THEN returns ELSE [op |-> "running"]
    /\ UNCHANGED <<matrix, polls, ch>>
    /\ UNCHANGED <<schulzeVars, medianVars, basicVars, funcVars>>

\* TruncateVoters of a poll of either type.
TruncateVoters(poll) ==
    IF PollType(poll) = SchulzePollType
    THEN [culprits |-> SchulzeCulprits(poll),
          poll |-> [poll EXCEPT !.Votes = SchulzeFiltered(poll)]]
    ELSE [culprits |-> MedianCulprits(poll),
          poll |-> [poll EXCEPT !.Votes = MedianTruncated(poll)]]

\* TruncateVoters on every poll once FillPollsWithVotes has returned nil.
IngestTruncateVoters ==
    /\ fill.pc = "done"
    /\ ingestRet.op = "FillPollsWithVotes" /\ ingestRet.err = NoError
    /\ fill' = [fill EXCEPT !.pc = "truncated"]
    /\ ingestRet' = [op |-> "TruncateVoters",
                     before |-> polls,
                     culprits |-> [name \in PollNames |-> TruncateVoters(polls[name]).culprits]]
    /\ polls' = [name \in PollNames |-> TruncateVoters(polls[name]).poll]
    /\ UNCHANGED <<matrix, tasks, ch>>
    /\ UNCHANGED <<schulzeVars, medianVars, basicVars, funcVars>>

CustomizedNext ==
    \/ IngestFillCustomized
    \/ IngestTaskRow
    \/ IngestTaskSend
    \/ IngestCollect
    \/ IngestTruncateVoters

SpecCustomized == CustomizedInit /\ [][CustomizedNext]_vars

\* ------------------------------------------------------------ function calls
\* The skeletons: a MoneyPollSkeleton, a PollSkeleton, and a skeleton of
\* another implementation of AbstractPollSkeleton.
NewCurrencyValue(valueCents, currency) ==
    [ValueCents |-> valueCents, Currency |-> currency]

NewMoneyPollSkeleton(name, value) ==
    [SkeletonType |-> "money-skeleton", Name |-> name, Value |-> value]

PollSkeleton(name, options) ==
    [SkeletonType |-> "basic-skeleton", Name |-> name, Options |-> options]

OtherSkeleton == [SkeletonType |-> "other-skeleton", Name |-> "s"]

NilPoll == [nil |-> TRUE]

\* The converter that makes a SchulzePoll of every PollSkeleton with two or
\* more options, whatever convertToBasic is.
converterWithoutBasic(convertToBasic, skel) ==
    IF skel.SkeletonType = "money-skeleton"
    THEN IF skel.Value.ValueCents < 0
         THEN [poll |-> NilPoll,
               err |-> NewPollTypeError(<<"median", skel.Value.ValueCents, skel.Name>>)]
         ELSE [poll |-> NewMedianPoll(skel.Value.ValueCents, <<>>), err |-> NoError]
    ELSE IF skel.SkeletonType = "basic-skeleton"
    THEN IF Len(skel.Options) \in {0, 1}
         THEN [poll |-> NilPoll,
               err |-> NewPollTypeError(<<"options", Len(skel.Options), skel.Name>>)]
         ELSE [poll |-> NewSchulzePoll(Len(skel.Options), <<>>), err |-> NoError]
    ELSE [poll |-> NilPoll, err |-> NewPollTypeError(<<"type", skel.SkeletonType>>)]

\* The type switch of the converter, then the switch on the number of
\* options with the fallthrough of case 2.
detaultSkeletonConverterGenerator(convertToBasic, skel) ==
    IF skel.SkeletonType = "money-skeleton"
    THEN IF skel.Value.ValueCents < 0
         THEN [poll |-> NilPoll,
               err |-> NewPollTypeError(<<"median", skel.Value.ValueCents, skel.Name>>)]
         ELSE [poll |-> NewMedianPoll(skel.Value.ValueCents, <<>>), err |-> NoError]
    ELSE IF skel.SkeletonType = "basic-skeleton"
    THEN LET numOptions == Len(skel.Options)
         IN  IF numOptions \in {0, 1}
             THEN [poll |-> NilPoll,
                   err |-> NewPollTypeError(<<"options", numOptions, skel.Name>>)]
             ELSE IF numOptions = 2 /\ convertToBasic
             THEN [poll |-> NewBasicPoll(<<>>), err |-> NoError]
             ELSE [poll |-> NewSchulzePoll(numOptions, <<>>), err |-> NoError]
    ELSE [poll |-> NilPoll, err |-> NewPollTypeError(<<"type", skel.SkeletonType>>)]

OptionNames == <<"a", "b", "c", "d", "e", "f">>

Skeletons ==
    {NewMoneyPollSkeleton("m", NewCurrencyValue(cents, "EUR")) :
        cents \in (0 - MaxCents)..MaxCents}
    \cup {PollSkeleton("p", SubSeq(OptionNames, 1, n)) : n \in 0..(MaxOptions + 1)}
    \cup {OtherSkeleton}

ConverterCalls ==
    {[op |-> "SkeletonConverter", convertToBasic |-> b, skel |-> skel] :
        b \in BOOLEAN, skel \in Skeletons}

\* The polls, voters and answers GenerateVoteFromBasicAnswer is called with.
GeneratorPolls ==
    {NewSchulzePoll(n, <<>>) : n \in 0..MaxOptions}
    \cup {NewMedianPoll(value, <<>>) : value \in (0..MaxValue) \cup {NoMedianUnitValue}}

BasicPollAnswers == {No, Aye, Abstention} \cup InvalidChoices

GeneratorCalls ==
    {[op |-> "GenerateVoteFromBasicAnswer", poll |-> poll, voter |-> voter,
      answer |-> answer] :
        poll \in GeneratorPolls, voter \in TallyVoters, answer \in BasicPollAnswers}

\* The majorities and sums of weights ComputeMajority is called with: every
\* fraction from 0 to 1 with a denominator up to MaxDenominator on every sum
\* up to MaxVotesSum, and the fractions with numerator 0 or 1 on NoWeight.
Fractions == {NewRat(a, b) : a \in 0..MaxDenominator, b \in 1..MaxDenominator}

MajorityCalls ==
    {[op |-> "ComputeMajority", majority |-> f, votesSum |-> votesSum] :
        f \in {g \in Fractions : g.num <= g.den}, votesSum \in 0..MaxVotesSum}
    \cup {[op |-> "ComputeMajority", majority |-> f, votesSum |-> NoWeight] :
            f \in {g \in Fractions : g.num <= 1 /\ g.num <= g.den}}

NotCalled == [op |-> "none"]

FuncInit ==
    /\ funcCall \in ConverterCalls \cup GeneratorCalls \cup MajorityCalls
    /\ funcRet = NotCalled
    /\ schulzeIdle /\ medianIdle /\ basicIdle /\ ingestIdle

FuncConvert ==
    /\ funcCall.op = "SkeletonConverter"
    /\ funcRet = NotCalled
    /\ funcRet' = [op |-> "SkeletonConverter",
                   res |-> detaultSkeletonConverterGenerator(funcCall.convertToBasic,
                                                             funcCall.skel)]
    /\ UNCHANGED funcCall
    /\ UNCHANGED <<schulzeVars, medianVars, basicVars, ingestVars>>

FuncGenerate ==
    /\ funcCall.op = "GenerateVoteFromBasicAnswer"
    /\ funcRet = NotCalled
    /\ funcRet' = [op |-> "GenerateVoteFromBasicAnswer",
                   res |-> GenerateVoteFromBasicAnswer(funcCall.poll, funcCall.voter,
                                                       funcCall.answer)]
    /\ UNCHANGED funcCall
    /\ UNCHANGED <<schulzeVars, medianVars, basicVars, ingestVars>>

FuncComputeMajority ==
    /\ funcCall.op = "ComputeMajority"
    /\ funcRet = NotCalled
    /\ funcRet' = [op |-> "ComputeMajority",
                   res |-> ComputeMajority(funcCall.majority.num, funcCall.majority.den,
                                           funcCall.votesSum)]
    /\ UNCHANGED funcCall
    /\ UNCHANGED <<schulzeVars, medianVars, basicVars, ingestVars>>

FuncNext ==
    \/ FuncConvert
    \/ FuncGenerate
    \/ FuncComputeMajority

SpecFunctions == FuncInit /\ [][FuncNext]_vars

\* ------------------------------------------------------------ the outline
\* ParseCollectionSkeletons of a PollCollectionParser made by
\* NewPollCollectionParser, whose limits are all off, with SimpleEuroHandler.
\* A line is a sequence of characters; the reader yields the lines.
headState == "headState"
groupState == "groupState"
pollState == "pollState"
optionState == "optionState"
groupOrPollState == "groupOrPollState"
optionalOptionState == "optionalOptionState"
invalidState == "invalidState"

\* The five patterns are ^\s*M\s+(.+?)\s*$ for a marker M.
headLineRx == <<"#">>
groupLineRx == <<"#", "#">>
pollLineRx == <<"#", "#", "#">>
optionLineRx == <<"*">>
medianOptionLineRx == <<"-">>

\* rx.FindStringSubmatch(line): the line and the group (.+?), or nothing.
\* After the marker comes white space and then a character that is none.
FindStringSubmatch(rx, line) ==
    LET rest == TrimLeft(line)
        m == Len(rx)
        group == TrimSpace(SubSeq(rest, m + 2, Len(rest)))
    IN  IF Len(rest) > m + 1 /\ SubSeq(rest, 1, m) = rx /\ rest[m + 1] = " "
           /\ group # <<>>
        THEN <<line, group>>
        ELSE <<>>

NewPollGroup(title) == [Title |-> title, Skeletons |-> <<>>]
NewPollSkeletonCollection(title) == [Title |-> title, Groups |-> <<>>]

newParserContext ==
    [Title |-> <<>>, Groups |-> <<>>, lastPollName |-> <<>>, numSkels |-> 0]

\* What a handler returns, with the context as it leaves it.
Handled(state, err, context) == [state |-> state, err |-> err, context |-> context]

\* A panic of a handler, as runSecureStateHandleFunc returns it.
Recovered(msg, context) ==
    Handled(invalidState, [kind |-> "error", msg |-> <<"internal parsing error", msg>>],
            context)

handleHeadState(line, context) ==
    LET match == FindStringSubmatch(headLineRx, line)
    IN  IF Len(match) = 0
        THEN Handled(invalidState, NewPollingSyntaxError(<<"invalid head line">>), context)
        ELSE IF context.Title # <<>>
        THEN Recovered(<<"no title was set yet">>, context)
        ELSE Handled(groupState, NoError, [context EXCEPT !.Title = match[2]])

handleGroupState(line, context) ==
    LET match == FindStringSubmatch(groupLineRx, line)
    IN  IF Len(match) = 0
        THEN Handled(invalidState, NewPollingSyntaxError(<<"invalid group line">>), context)
        ELSE Handled(pollState, NoError,
                     [context EXCEPT !.Groups = Append(@, NewPollGroup(match[2]))])

handlePollState(line, context) ==
    LET match == FindStringSubmatch(pollLineRx, line)
    IN  IF Len(match) = 0
        THEN Handled(invalidState, NewPollingSyntaxError(<<"invalid poll line">>), context)
        ELSE Handled(optionState, NoError, [context EXCEPT !.lastPollName = match[2]])

\* handleOptionState that takes a negative money value.
handleOptionStateTakesNegative(line, context) ==
    LET last == Len(context.Groups)
        option == FindStringSubmatch(optionLineRx, line)
        money == FindStringSubmatch(medianOptionLineRx, line)
    IN  IF context.lastPollName = <<>> THEN Recovered(<<"no poll was parsed first">>, context)
        ELSE IF last = 0 THEN Recovered(<<"group list was empty">>, context)
        ELSE IF Len(option) > 0
        THEN Handled(optionalOptionState, NoError,
                [context EXCEPT
                    !.Groups[last].Skeletons =
                        Append(@, PollSkeleton(context.lastPollName, <<option[2]>>)),
                    !.numSkels = @ + 1])
        ELSE IF Len(money) > 0
        THEN LET currency == SimpleEuroParse(money[2])
             IN  IF currency.err # NoError
                 THEN Handled(invalidState,
                              NewPollingSyntaxError(<<"Can't parse money value">>), context)
                 ELSE Handled(groupOrPollState, NoError,
                        [context EXCEPT
                            !.Groups[last].Skeletons =
                                Append(@, NewMoneyPollSkeleton(context.lastPollName,
                                            NewCurrencyValue(currency.ValueCents, ""))),
                            !.numSkels = @ + 1])
        ELSE Handled(invalidState, NewPollingSyntaxError(<<"invalid option line">>), context)

\* matchFirst tries the option pattern before the money pattern.
handleOptionState(line, context) ==
    LET last == Len(context.Groups)
        option == FindStringSubmatch(optionLineRx, line)
        money == FindStringSubmatch(medianOptionLineRx, line)
    IN  IF context.lastPollName = <<>> THEN Recovered(<<"no poll was parsed first">>, context)
        ELSE IF last = 0 THEN Recovered(<<"group list was empty">>, context)
        ELSE IF Len(option) > 0
        THEN Handled(optionalOptionState, NoError,
                [context EXCEPT
                    !.Groups[last].Skeletons =
                        Append(@, PollSkeleton(context.lastPollName, <<option[2]>>)),
                    !.numSkels = @ + 1])
        ELSE IF Len(money) > 0
        THEN LET currency == SimpleEuroParse(money[2])
             IN  IF currency.err # NoError
                 THEN Handled(invalidState,
                              NewPollingSyntaxError(<<"Can't parse money value">>), context)
                 ELSE IF currency.ValueCents < 0
                 THEN Handled(invalidState,
                              NewPollingSemanticError(<<"negative value", line>>), context)
                 ELSE Handled(groupOrPollState, NoError,
                        [context EXCEPT
                            !.Groups[last].Skeletons =
                                Append(@, NewMoneyPollSkeleton(context.lastPollName,
                                            NewCurrencyValue(currency.ValueCents, ""))),
                            !.numSkels = @ + 1])
        ELSE Handled(invalidState, NewPollingSyntaxError(<<"invalid option line">>), context)

\* The group pattern is tried first, then the poll pattern; no handler of the
\* model returns a validation error.
handleGroupOrPollState(line, context) ==
    LET groupRes == handleGroupState(line, context)
        pollRes == handlePollState(line, context)
    IN  IF groupRes.err = NoError THEN groupRes
        ELSE IF pollRes.err = NoError THEN pollRes
        ELSE Handled(invalidState,
                     NewPollingSyntaxError(<<"expected either group or poll">>), context)

\* Another option goes to the last skeleton of the last group, which the
\* state says is a PollSkeleton.
handleOptionalOptionState(line, context) ==
    LET match == FindStringSubmatch(optionLineRx, line)
        last == Len(context.Groups)
        handleRes == handleGroupOrPollState(line, context)
    IN  IF Len(match) > 0
        THEN IF last = 0 THEN Recovered(<<"group list was empty">>, context)
             ELSE IF Len(context.Groups[last].Skeletons) = 0
             THEN Recovered(<<"list was empty">>, context)
             ELSE LET lastPoll == Len(context.Groups[last].Skeletons)
                  IN  IF context.Groups[last].Skeletons[lastPoll].SkeletonType
                            # "basic-skeleton"
                      THEN Recovered(<<"expected a poll on parse list">>, context)
                      ELSE Handled(optionalOptionState, NoError,
                            [context EXCEPT
                                !.Groups[last].Skeletons[lastPoll].Options =
                                    Append(@, match[2])])
        ELSE IF handleRes.err = NoError THEN handleRes
        ELSE Handled(invalidState,
                     NewPollingSyntaxError(<<"expected either poll option, group or poll">>),
                     context)

\* The switch on the state.
handler(state, line, context) ==
    CASE state = headState -> handleHeadState(line, context)
      [] state = groupState -> handleGroupState(line, context)
      [] state = pollState -> handlePollState(line, context)
      [] state = optionState -> handleOptionState(line, context)
      [] state = groupOrPollState -> handleGroupOrPollState(line, context)
      [] state = optionalOptionState -> handleOptionalOptionState(line, context)

\* convertParserErr: a PollingSyntaxError gets the number of its line.
convertParserErr(err, lineNum) ==
    IF err.kind = "PollingSyntaxError"
    THEN [kind |-> err.kind, msg |-> err.msg, LineNum |-> lineNum]
    ELSE err

NilCollection == [nil |-> TRUE]

\* The PollSkeletons of the collection with fewer than two options.
fewOptions(groups) ==
    {<<g, x>> \in (1..Len(groups)) \X (1..MaxLines) :
        /\ x <= Len(groups[g].Skeletons)
        /\ groups[g].Skeletons[x].SkeletonType = "basic-skeleton"
        /\ Len(groups[g].Skeletons[x].Options) < 2}

\* The checks after the last line.
atEndOfInput(state, context) ==
    IF fewOptions(context.Groups) # {}
    THEN [res |-> NilCollection,
          err |-> NewPollingSyntaxError(<<"contains only one option">>)]
    ELSE IF state = headState
    THEN [res |-> NilCollection, err |-> NewPollingSyntaxError(<<"no title found">>)]
    ELSE IF state = optionState
    THEN [res |-> NilCollection,
          err |-> NewPollingSyntaxError(<<"beginning of a poll but no option">>)]
    ELSE [res |-> [Title |-> context.Title, Groups |-> context.Groups], err |-> NoError]

\* The scanner loop from line lineNum on: an empty line is skipped, every
\* other line goes to the handler of the state.
RECURSIVE scan(_, _, _, _)
scan(lines, lineNum, state, context) ==
    IF lineNum > Len(lines) THEN atEndOfInput(state, context)
    ELSE LET line == TrimSpace(lines[lineNum])
         IN  IF line = <<>> THEN scan(lines, lineNum + 1, state, context)
             ELSE LET handled == handler(state, line, context)
                  IN  IF handled.err # NoError
                      THEN [res |-> NilCollection,
                            err |-> convertParserErr(handled.err, lineNum)]
                      ELSE scan(lines, lineNum + 1, handled.state, handled.context)

ParseCollectionSkeletons(lines) == scan(lines, 1, headState, newParserContext)

\* The lines of the model: an empty line and a line of white space; a title,
\* a group, a poll, an option and a money line; a money line with a negative
\* value; and a line that starts with # and is none of the above.
OutlineLines ==
    {<<>>, <<" ">>,
     <<"#", " ", "t">>,
     <<"#", "#", " ", "g">>,
     <<"#", "#", "#", " ", "p">>,
     <<"*", " ", "o">>,
     <<"-", " ", "1">>,
     <<"-", " ", "-", "1">>,
     <<"#", "c">>}

Outlines == UNION {[1..n -> OutlineLines] : n \in 0..MaxLines}

OutlineInit ==
    /\ funcCall \in {[op |-> "ParseCollectionSkeletons", lines |-> lines] :
                        lines \in Outlines}
    /\ funcRet = NotCalled
    /\ schulzeIdle /\ medianIdle /\ basicIdle /\ ingestIdle

FuncParseCollectionSkeletons ==
    /\ funcCall.op = "ParseCollectionSkeletons"
    /\ funcRet = NotCalled
    /\ funcRet' = [op |-> "ParseCollectionSkeletons",
                   res |-> ParseCollectionSkeletons(funcCall.lines)]
    /\ UNCHANGED funcCall
    /\ UNCHANGED <<schulzeVars, medianVars, basicVars, ingestVars>>

\* A converter made by NewDefaultSkeletonConverter applied to every skeleton
\* of the collection ParseCollectionSkeletons has returned.
FuncConvertCollection ==
    /\ funcRet.op = "ParseCollectionSkeletons"
    /\ funcRet.res.err = NoError
    /\ \E convertToBasic \in BOOLEAN :
        funcRet' = [op |-> "NewDefaultSkeletonConverter",
                    convertToBasic |-> convertToBasic,
                    collection |-> funcRet.res.res,
                    res |-> [g \in 1..Len(funcRet.res.res.Groups) |->
                                [x \in 1..Len(funcRet.res.res.Groups[g].Skeletons) |->
                                    detaultSkeletonConverterGenerator(convertToBasic,
                                        funcRet.res.res.Groups[g].Skeletons[x])]]]
    /\ UNCHANGED funcCall
    /\ UNCHANGED <<schulzeVars, medianVars, basicVars, ingestVars>>

OutlineNext == FuncParseCollectionSkeletons \/ FuncConvertCollection

SpecOutline == OutlineInit /\ [][OutlineNext]_vars

\* -------------------------------------------- operators the claims are stated with
\* The sum of the weights of the votes of a sequence.
RECURSIVE VotesWeight(_)
VotesWeight(votes) ==
    IF votes = <<>> THEN 0 ELSE votes[1].Voter.Weight + VotesWeight(Tail(votes))

SetMax(S) == CHOOSE x \in S : \A y \in S : y <= x

SetMin(S) == CHOOSE x \in S : \A y \in S : x <= y

\* ----------------------------------------------------- claims on SpecMedian
MedianTallied == medianRet.op = "Tally"

\* The votes ordered by value descending, votes of equal value in the order
\* they have in the sequence: the votes of value v, then those of the values
\* below v.
RECURSIVE ByValueDescending(_, _)
ByValueDescending(votes, v) ==
    IF v < 0 THEN <<>>
    ELSE SelectSeq(votes, LAMBDA vote : vote.Value = v) \o ByValueDescending(votes, v - 1)

\* The majority a tally requires: the one given, or half the total weight.
RequiredOf(votes, majority) ==
    IF majority = NoWeight THEN VotesWeight(votes) \div 2 ELSE majority

\* The positions of an order at which the running sum of the weights is
\* strictly greater than required.
CrossingPositions(order, required) ==
    {k \in 1..Len(order) : VotesWeight(SubSeq(order, 1, k)) > required}

IsDescending(votes) ==
    \A x, y \in 1..Len(votes) : x < y => votes[x].Value >= votes[y].Value

\* C4: Tally(majority) returns WeightSum = the total weight, RequiredMajority
\* = required (the majority given, or floor(total / 2) for NoWeight) and
\* MajorityValue = the value of the first vote, in the order by value
\* descending (equal values in insertion order), at which the running sum of
\* the weights is strictly greater than required, or NoMedianUnitValue when the
\* running sum never is.
C4_MedianTally ==
    MedianTallied =>
        LET votes == medianRet.before
            order == ByValueDescending(votes, MaxValue)
            required == RequiredOf(votes, medianRet.majority)
            crossing == CrossingPositions(order, required)
        IN  /\ medianRet.res.WeightSum = VotesWeight(votes)
            /\ medianRet.res.RequiredMajority = required
            /\ medianRet.res.MajorityValue =
                IF crossing = {} THEN NoMedianUnitValue
                ELSE order[SetMin(crossing)].Value

\* The weight of the votes of a value of at least v.
WeightAtLeast(votes, v) ==
    VotesWeight(SelectSeq(votes, LAMBDA vote : vote.Value >= v))

\* C5: when Tally returns a defined MajorityValue v, the weight of the voters
\* who voted a value >= v is strictly greater than RequiredMajority, and for
\* no value v' > v is the weight of the voters who voted >= v' strictly
\* greater than RequiredMajority.
C5_MajorityUniqueness ==
    (MedianTallied /\ medianRet.res.MajorityValue # NoMedianUnitValue) =>
        LET v == medianRet.res.MajorityValue
            required == medianRet.res.RequiredMajority
        IN  /\ WeightAtLeast(medianPoll.Votes, v) > required
            /\ \A higher \in (v + 1)..MaxValue :
                ~(WeightAtLeast(medianPoll.Votes, higher) > required)

MedianTruncatedVoters == medianRet.op = "TruncateVoters"

\* C15: MedianPoll.TruncateVoters sets the value of every vote above the
\* value of the poll to the value of the poll and returns, in vote order, one
\* culprit for each of them with the same voter and the value the vote had;
\* every other vote stays as it is and no vote is added, removed or moved.
\* After the call no vote is above the value of the poll, and votes that
\* were in descending order of value before the call are so after it.
C15_MedianTruncate ==
    MedianTruncatedVoters =>
        LET before == medianRet.before
            after == medianPoll.Votes
            ceiling == medianPoll.Value
            over == {x \in 1..Len(before) : before[x].Value > ceiling}
        IN  /\ Len(after) = Len(before)
            /\ \A x \in 1..Len(before) :
                /\ after[x].Voter = before[x].Voter
                /\ after[x].Value = IF x \in over THEN ceiling ELSE before[x].Value
            /\ Len(medianRet.culprits) = Cardinality(over)
            /\ \A k \in 1..Len(medianRet.culprits) :
                \E x \in over :
                    /\ Cardinality({y \in over : y <= x}) = k
                    /\ medianRet.culprits[k].Voter = before[x].Voter
                    /\ medianRet.culprits[k].Value = before[x].Value
            /\ \A x \in 1..Len(after) : after[x].Value <= ceiling
            /\ IsDescending(before) => IsDescending(after)

\* A poll of MaxMedianVotes votes in descending order, some above the value
\* of the poll and some below it, has been truncated.
C15_Witness ==
    /\ MedianTruncatedVoters
    /\ Len(medianRet.before) = MaxMedianVotes
    /\ IsDescending(medianRet.before)
    /\ medianRet.culprits # <<>>
    /\ \E x \in 1..Len(medianRet.before) : medianRet.before[x].Value < medianPoll.Value
    /\ medianPoll.Votes # medianRet.before

\* C16: the lazy sort is a pure memoization.  After every sequence of
\* AddVote, TruncateVoters and Tally on a poll made by NewMedianPoll, each
\* Tally returns the WeightSum, the RequiredMajority, the MajorityValue and
\* the voters of every value that a tally from scratch returns on the votes
\* the poll holds at the call, sorted by value descending.
C16_LazySortMemoization ==
    MedianTallied =>
        LET scratch == MedianTallyResult(
                           SortVotes(NewMedianPoll(medianPoll.Value, medianRet.before)),
                           medianRet.majority)
        IN  /\ medianRet.res.WeightSum = scratch.WeightSum
            /\ medianRet.res.RequiredMajority = scratch.RequiredMajority
            /\ medianRet.res.MajorityValue = scratch.MajorityValue
            /\ medianRet.res.ValueDetails = scratch.ValueDetails

\* ------------------------------------------------------ claims on SpecBasic
BasicTallied == basicRet.op = "Tally"

\* The bucket a choice is counted in.
BucketOf(choice) ==
    IF choice = No THEN "NumNoes"
    ELSE IF choice = Aye THEN "NumAyes"
    ELSE IF choice = Abstention THEN "NumAbstention"
    ELSE "NumInvalid"

Buckets == {"NumNoes", "NumAyes", "NumAbstention", "NumInvalid"}

VotesOfBucket(votes, bucket) ==
    SelectSeq(votes, LAMBDA vote : BucketOf(vote.Choice) = bucket)

CounterSum(counter) ==
    counter.NumNoes + counter.NumAyes + counter.NumAbstention + counter.NumInvalid

\* C6: in the result of Tally every bucket of NumberVoters holds the number
\* of the votes of that bucket's choice and the same bucket of WeightedVotes
\* the sum of their voters' weights, a choice other than No, Aye and
\* Abstention counting in the Invalid bucket; the four count buckets sum to
\* the number of votes and the four weight buckets to the total weight, and
\* with no invalid vote No + Aye + Abstention is the number of votes (the
\* total weight, weighted).
C6_BasicTallyConservation ==
    BasicTallied =>
        LET votes == basicPoll.Votes
            res == basicRet.res
        IN  /\ \A bucket \in Buckets :
                /\ res.NumberVoters[bucket] = Len(VotesOfBucket(votes, bucket))
                /\ res.WeightedVotes[bucket] = VotesWeight(VotesOfBucket(votes, bucket))
            /\ CounterSum(res.NumberVoters) = Len(votes)
            /\ CounterSum(res.WeightedVotes) = VotesWeight(votes)
            /\ (\A x \in 1..Len(votes) : IsValid(votes[x].Choice)) =>
                /\ res.NumberVoters.NumNoes + res.NumberVoters.NumAyes
                    + res.NumberVoters.NumAbstention = Len(votes)
                /\ res.WeightedVotes.NumNoes + res.WeightedVotes.NumAyes
                    + res.WeightedVotes.NumAbstention = VotesWeight(votes)

\* A tally of a poll that holds a valid vote and an invalid vote of a voter
\* with a weight.
C6_Witness ==
    /\ BasicTallied
    /\ \E x, y \in 1..Len(basicPoll.Votes) :
        /\ IsValid(basicPoll.Votes[x].Choice)
        /\ ~IsValid(basicPoll.Votes[y].Choice)
        /\ basicPoll.Votes[y].Voter.Weight > 0
    /\ basicRet.res.WeightedVotes.NumInvalid > 0

\* ----------------------------------------------------- claims on SpecIngest
Range(seq) == {seq[x] : x \in DOMAIN seq}

Repeats(seq) == \E x, y \in DOMAIN seq : x < y /\ seq[x] = seq[y]

\* The voter names of the body rows and the poll names of head[1:].
BodyVoters == [r \in 1..Len(matrix.Body) |-> matrix.Body[r][1]]

HeadPolls == IF matrix.Head = <<>> THEN <<>> ELSE Tail(matrix.Head)

ShapeMismatch ==
    \/ matrix.Head = <<>>
    \/ \E r \in 1..Len(matrix.Body) : Len(matrix.Body[r]) # Len(matrix.Head)

DuplicateName == Repeats(BodyVoters) \/ Repeats(HeadPolls)

UnknownName ==
    \/ \E name \in Range(BodyVoters) : name \notin RosterNames
    \/ \E name \in Range(HeadPolls) : name \notin PollNames

\* The grid is one MatchEntries accepts.
WellFormed == ~ShapeMismatch /\ ~DuplicateName /\ ~UnknownName

MissingVoter == RosterNames \ Range(BodyVoters) # {}

MissingPoll == PollNames \ Range(HeadPolls) # {}

MatchReturned == ingestRet.op = "MatchEntries"

FillReturned == ingestRet.op = "FillPollsWithVotes"

\* fillAllPolls has returned.
FanOutReturned == FillReturned /\ fill.pc = "done"

\* The error the cell of body row r in poll column c (0-based) produces:
\* that of the parser or of the empty-vote policy, or that of AddVote.
CellError(c, r) ==
    LET pollName == matrix.Head[c + 2]
        generated == generateSingleVote(polls[pollName], fill.parsers[pollName],
                        fill.policies[pollName], Roster[matrix.Body[r][1]],
                        matrix.Body[r][c + 2])
    IN  IF generated.err # NoError \/ generated.vote = NilVote THEN generated.err
        ELSE AddVote(polls[pollName], generated.vote).err

FailingRows(c) == {r \in 1..Len(matrix.Body) : CellError(c, r) # NoError}

FailingColumns == {c \in 0..(numPolls - 1) : FailingRows(c) # {}}

\* The error generateVotesForPoll returns for a failing column: that of its
\* first failing row.
ColumnError(c) == CellError(c, SetMin(FailingRows(c)))

\* C7: when fillAllPolls has returned, the error FillPollsWithVotes returns
\* is the error of the failing column of the smallest index, whatever the
\* order the tasks ran and their results arrived in, and nil exactly when no
\* column failed.
C7_ErrorSelection ==
    FanOutReturned =>
        /\ ingestRet.err =
            IF FailingColumns = {} THEN NoError ELSE ColumnError(SetMin(FailingColumns))
        /\ (ingestRet.err = NoError) <=> (FailingColumns = {})

\* Both columns failed with different errors, the result of column 1 came in
\* before that of column 0, and the error of column 0 was returned.
C7_Witness ==
    /\ FanOutReturned
    /\ FailingColumns = {0, 1}
    /\ ColumnError(0) # ColumnError(1)
    /\ fill.received = <<1, 0>>
    /\ ingestRet.err = ColumnError(0)

C10_ShapeCheck ==
    (MatchReturned /\ ShapeMismatch) =>
        /\ ingestRet.res.err # NoError
        /\ ingestRet.res.err.kind = "PollingSemanticError"

\* The task of column c has taken a turn of the loop of generateVotesForPoll
\* in this step.
TaskTurn(c) ==
    /\ fill.pc = "collect"
    /\ c <= numPolls
    /\ tasks[c].pc = "run"
    /\ tasks'[c] # tasks[c]

\* The answer a policy that adds a vote asks the vote generator for.
AnswerOf(policy) ==
    IF policy = AddAsAyeEmptyVote THEN Aye
    ELSE IF policy = AddAsNoEmptyVote THEN No
    ELSE Abstention

\* C11: in every turn of a task on a cell that is empty after trimming, the
\* parser has no part and the policy of the poll decides: IgnoreEmptyVote
\* appends nothing and reports no error, RaiseErrorEmptyVote fails the column
\* with an error that errors.Is matches with ErrEmptyPollPolicy and with
\* ErrPoll, and AddAsAye, AddAsNo and AddAsAbstention append the vote the
\* poll's vote generator returns for that answer or fail the column with the
\* generator's error; a cell that is not empty gets the outcome of the poll's
\* parser.
C11_EmptyCellPolicy ==
    [][\A c \in 1..MaxColumns : TaskTurn(c) =>
        LET name == matrix.Head[c + 1]
            row == matrix.Body[tasks[c].row]
            voter == Roster[row[1]]
            policy == fill.policies[name]
            unchanged == polls' = polls
            appended(vote) ==
                /\ polls' = [polls EXCEPT ![name].Votes = Append(@, vote)]
                /\ tasks'[c].err = NoError
            failed(err) ==
                /\ unchanged
                /\ tasks'[c].pc = "send"
                /\ tasks'[c].err = err
        IN  IF TrimSpace(row[c + 1]) = <<>>
            THEN IF policy = IgnoreEmptyVote
                 THEN unchanged /\ tasks'[c].err = NoError
                 ELSE IF policy = RaiseErrorEmptyVote
                 THEN /\ unchanged
                      /\ tasks'[c].pc = "send"
                      /\ ErrorsIs(tasks'[c].err, ErrEmptyPollPolicy)
                      /\ ErrorsIs(tasks'[c].err, ErrPoll)
                 ELSE LET generated == GenerateVoteFromBasicAnswer(polls[name], voter,
                                            AnswerOf(policy))
                      IN  IF generated.err = NoError THEN appended(generated.vote)
                          ELSE failed(generated.err)
            ELSE LET parsed == ParseFromString(fill.parsers[name],
                                    TrimSpace(row[c + 1]), voter)
                 IN  IF parsed.err = NoError THEN appended(parsed.vote)
                     ELSE failed(parsed.err)
      ]_vars

\* The task of the median poll has met an empty cell in the first row under
\* AddAsAyeEmptyVote and appended the generator's vote for the ceiling, then
\* parsed the cell of the second row.
C11_Witness ==
    /\ fill.pc = "collect"
    /\ Len(matrix.Body) = MaxRows
    /\ \E c \in 1..numPolls :
        /\ matrix.Head[c + 1] = "p1"
        /\ fill.policies["p1"] = AddAsAyeEmptyVote
        /\ TrimSpace(matrix.Body[1][c + 1]) = <<>>
        /\ TrimSpace(matrix.Body[2][c + 1]) # <<>>
        /\ tasks[c].pc = "send"
        /\ tasks[c].err = NoError
        /\ polls["p1"].Votes[1] = NewMedianVote(Roster[matrix.Body[1][1]], MaxValue)
        /\ Len(polls["p1"].Votes) = 2

\* FillPollsWithVotes has returned without an error after fillAllPolls.
FillSucceeded == FanOutReturned /\ ingestRet.err = NoError

\* The body rows that give the poll of column c (from 1) a vote: every row
\* but those with an empty cell under IgnoreEmptyVote.
VotingRows(c) ==
    {r \in 1..Len(matrix.Body) :
        ~(/\ TrimSpace(matrix.Body[r][c + 1]) = <<>>
          /\ fill.policies[matrix.Head[c + 1]] = IgnoreEmptyVote)}

\* C20: when FillPollsWithVotes has succeeded, in whatever order the tasks of
\* the columns took their turns and sent their results, the poll of every
\* column holds exactly one vote for every body row but the rows skipped by
\* IgnoreEmptyVote, in the order of the rows: vote number k is the vote of the
\* k-th such row, for the voter of that row.  The votes of a poll are thus
\* determined by the grid, the parsers and the policies alone.
C20_VoteOrder ==
    FillSucceeded =>
        \A c \in 1..numPolls :
            LET name == matrix.Head[c + 1]
                votes == polls[name].Votes
                rows == VotingRows(c)
            IN  /\ Len(votes) = Cardinality(rows)
                /\ \A k \in 1..Len(votes) :
                    \E r \in rows :
                        /\ Cardinality({q \in rows : q <= r}) = k
                        /\ votes[k].Voter = Roster[matrix.Body[r][1]]
                        /\ votes[k] = generateSingleVote(NewPolls[name],
                                          fill.parsers[name], fill.policies[name],
                                          Roster[matrix.Body[r][1]],
                                          matrix.Body[r][c + 1]).vote

\* A call on two columns and two rows has succeeded, the task of the second
\* column has sent its result first, the first column has skipped its first
\* row and the second column holds a vote for either row.
C20_Witness ==
    /\ FillSucceeded
    /\ numPolls = MaxColumns
    /\ Len(matrix.Body) = MaxRows
    /\ fill.received[1] = 1
    /\ 1 \notin VotingRows(1)
    /\ Len(polls[matrix.Head[2]].Votes) = MaxRows - 1
    /\ Len(polls[matrix.Head[3]].Votes) = MaxRows
    /\ polls[matrix.Head[3]].Votes[1].Voter # polls[matrix.Head[3]].Votes[2].Voter

\* The tasks of fillAllPolls that have not sent their result yet.
LiveTasks ==
    IF fill.pc = "collect"
    THEN {c \in 1..numPolls : tasks[c].pc \in {"run", "send"}}
    ELSE {}

\* C21: while fillAllPolls runs, the columns of two tasks never name the same
\* poll, and a turn of the task of a column changes the poll of that column
\* only: the other polls of the poll map, the grid, the parsers and the
\* policies are as before the turn.
C21_ExclusiveWrite ==
    [][/\ \A c, d \in LiveTasks : c # d => matrix.Head[c + 1] # matrix.Head[d + 1]
       /\ \A c \in 1..MaxColumns : TaskTurn(c) =>
            /\ \A name \in DOMAIN polls :
                name # matrix.Head[c + 1] => polls'[name] = polls[name]
            /\ matrix' = matrix
            /\ fill'.parsers = fill.parsers
            /\ fill'.policies = fill.policies
      ]_vars

\* The tasks of two columns are both in their loop and each has appended a
\* vote to the poll of its own column.
C21_Witness ==
    /\ fill.pc = "collect"
    /\ numPolls = 2
    /\ tasks[1].pc = "run" /\ tasks[2].pc = "run"
    /\ Len(polls[matrix.Head[2]].Votes) = 1
    /\ Len(polls[matrix.Head[3]].Votes) = 1

\* The columns (from 0) of the results sent so far: those the collector has
\* received, then the one in the channel.
SentColumns == fill.received \o [x \in 1..Len(ch) |-> ch[x].column]

\* The bookkeeping of the fan-out: one task for every poll column, one result
\* of every task that has sent and none of the others, and a collector that
\* has returned only after it has received as many results as there are
\* columns, when every task has sent and the channel is empty.
FanOutJoined ==
    fill.pc \in {"collect", "done"} =>
        /\ Len(tasks) = numPolls
        /\ Len(ch) <= 1
        /\ Len(SentColumns) = Cardinality({c \in 1..numPolls : tasks[c].pc = "done"})
        /\ \A c \in 1..numPolls :
            tasks[c].pc = "done" <=> \E x \in 1..Len(SentColumns) : SentColumns[x] = c - 1
        /\ fill.pc = "done" =>
            /\ Len(fill.received) = numPolls
            /\ \A c \in 1..numPolls : tasks[c].pc = "done"
            /\ ch = <<>>
            /\ FillReturned
            /\ numPolls = 0 => ingestRet.err = NoError

\* The steps fillAllPolls has still to take: the rows and the send of every
\* task, and the receives of the collector.
RECURSIVE TaskStepsLeft(_)
TaskStepsLeft(c) ==
    IF c = 0 THEN 0
    ELSE TaskStepsLeft(c - 1)
         + (IF tasks[c].pc = "run" THEN Len(matrix.Body) - tasks[c].row + 2
            ELSE IF tasks[c].pc = "send" THEN 1
            ELSE 0)

StepsLeft == TaskStepsLeft(numPolls) + (numPolls - fill.i)

\* A goroutine of fillAllPolls can take a step: a task is in its loop, a task
\* is at its send and the channel has room, or the channel holds a result
\* for the collector.
CanStep ==
    \/ \E c \in 1..numPolls : tasks[c].pc = "run"
    \/ Len(ch) < 1 /\ \E c \in 1..numPolls : tasks[c].pc = "send"
    \/ ch # <<>>

\* C22: fillAllPolls starts one task for each of the M poll columns, every
\* task sends exactly one result whether its column failed or not, and the
\* collector returns only after M receives, with no task left at its send;
\* with M = 0 the call returns nil without a task.  The call terminates in
\* every interleaving: while it runs, a task or the collector can always take
\* a step, and every step leaves fewer steps to take.
C22_FanOutJoins ==
    [][/\ FanOutJoined
       /\ FanOutJoined'
       /\ fill.pc = "collect" =>
            /\ CanStep
            /\ StepsLeft > 0
            /\ StepsLeft' < StepsLeft
            /\ fill'.pc = "done" <=> StepsLeft' = 0
      ]_vars

\* fillAllPolls has returned after two tasks, one with an error and one
\* without, have sent their results.
C22_Witness ==
    /\ FanOutReturned
    /\ numPolls = 2
    /\ Len(fill.received) = 2
    /\ tasks[1].err # NoError
    /\ tasks[2].err = NoError
    /\ tasks[1].pc = "done" /\ tasks[2].pc = "done"

\* fillAllPolls has returned an error.
FillFailedInFanOut == FanOutReturned /\ ingestRet.err # NoError

\* The body rows the task of column c (from 1) has gone through without an
\* error: all of them, or those before its first failing row.
RowsDone(c) ==
    IF FailingRows(c - 1) = {} THEN 1..Len(matrix.Body)
    ELSE 1..(SetMin(FailingRows(c - 1)) - 1)

\* The vote the cell of body row r in column c (from 1) makes.
CellVote(c, r) ==
    generateSingleVote(NewPolls[matrix.Head[c + 1]], fill.parsers[matrix.Head[c + 1]],
        fill.policies[matrix.Head[c + 1]], Roster[matrix.Body[r][1]],
        matrix.Body[r][c + 1]).vote

\* C23: when fillAllPolls has returned an error, the poll of a column that
\* failed at body row r holds exactly the votes of the rows before r, in row
\* order, and none of row r or a later row, and the poll of a column that did
\* not fail holds the votes of all its rows: nothing is taken back, and the
\* failure of a column does not end the insertion into another one.
C23_NoRollback ==
    FillFailedInFanOut =>
        \A c \in 1..numPolls :
            LET votes == polls[matrix.Head[c + 1]].Votes
                rows == VotingRows(c) \cap RowsDone(c)
            IN  /\ Len(votes) = Cardinality(rows)
                /\ \A r \in rows :
                    votes[Cardinality({q \in rows : q <= r})] = CellVote(c, r)

\* fillAllPolls has returned the error of the first column, which failed at
\* its last row and keeps the vote of the rows before, after the second
\* column, which did not fail, has got the votes of all rows.
C23_Witness ==
    /\ FillFailedInFanOut
    /\ numPolls = 2
    /\ Len(matrix.Body) = MaxRows
    /\ FailingRows(0) = {MaxRows}
    /\ FailingRows(1) = {}
    /\ Len(polls[matrix.Head[2]].Votes) = MaxRows - 1
    /\ Len(polls[matrix.Head[3]].Votes) = MaxRows

\* FillPollsWithVotes has returned before its call of fillAllPolls.
ReturnedBeforeFanOut == FillReturned /\ fill.pc = "failed"

\* The error says that a matched poll has no parser or no policy.
NoParserOrPolicyError ==
    /\ ingestRet.err.kind = "PollingSemanticError"
    /\ Len(ingestRet.err.msg) > 0
    /\ ingestRet.err.msg[1] \in {"no parser", "no policy"}

\* C24: a FillPollsWithVotes that fails in MatchEntries, in the check for
\* missing voters or missing polls, or for a matched poll without a parser or
\* a policy returns before fillAllPolls: no task has been started, nothing has
\* been sent, and every poll of the poll map holds the votes it held before
\* the call.
C24_ValidationFirst ==
    FillReturned =>
        /\ (\/ ~WellFormed
            \/ ~ingestRet.allowMissingVoters /\ MissingVoter
            \/ ~ingestRet.allowMissingPolls /\ MissingPoll
            \/ NoParserOrPolicyError) => ReturnedBeforeFanOut
        /\ ReturnedBeforeFanOut =>
            /\ ingestRet.err # NoError
            /\ tasks = <<>>
            /\ ch = <<>>
            /\ polls = NewPolls

\* A call on a grid MatchEntries accepts, with rows to insert, has failed for
\* a poll without a parser and has left the polls as they were.
C24_Witness ==
    /\ ReturnedBeforeFanOut
    /\ WellFormed
    /\ Len(matrix.Body) = MaxRows
    /\ NoParserOrPolicyError
    /\ ingestRet.err.msg[1] = "no parser"
    /\ polls = NewPolls

\* ------------------------------------------------- claims on SpecCustomized
\* C25: when FillPollsWithVotes has filled empty polls with the parsers that
\* CustomizeParsersToMap makes of the default templates, and returned nil,
\* TruncateVoters has no culprits on any poll: under every grid and every
\* policy for empty cells each vote a poll received has the length or stays
\* within the ceiling the poll asks for.
C25_NoTruncationRemainder ==
    ingestRet.op = "TruncateVoters" =>
        /\ \A name \in PollNames : ingestRet.culprits[name] = <<>>
        /\ polls = ingestRet.before

\* Both polls received a vote from a cell and a vote from the policy for
\* empty cells, the one for the MedianPoll at the ceiling itself, and
\* TruncateVoters has run.
C25_Witness ==
    /\ ingestRet.op = "TruncateVoters"
    /\ Len(matrix.Head) = 3
    /\ \A c \in 1..2 :
        /\ \E r \in 1..Len(matrix.Body) : TrimSpace(matrix.Body[r][c + 1]) = <<>>
        /\ \E r \in 1..Len(matrix.Body) : TrimSpace(matrix.Body[r][c + 1]) # <<>>
    /\ \A name \in PollNames : Len(polls[name].Votes) = 2
    /\ \A x \in 1..2 : polls["p1"].Votes[x].Value = polls["p1"].Value

\* ---------------------------------------------------- claims on SpecOutline
OutlineParsed == funcRet.op = "ParseCollectionSkeletons"
OutlineAccepted == OutlineParsed /\ funcRet.res.err = NoError
OutlineConverted == funcRet.op = "NewDefaultSkeletonConverter"

\* The lines of an outline by what they are, written out.
TitleLine == <<"#", " ", "t">>
GroupLine == <<"#", "#", " ", "g">>
PollLine == <<"#", "#", "#", " ", "p">>
OptionLine == <<"*", " ", "o">>
MoneyLine == <<"-", " ", "1">>
NegativeMoneyLine == <<"-", " ", "-", "1">>
EmptyLines == {<<>>, <<" ">>}

\* The lines of an outline that are not empty.
NonEmpty(lines) == SelectSeq(lines, LAMBDA line : line \notin EmptyLines)

\* C29: ParseCollectionSkeletons returns a collection only if the first
\* non-empty line is the title line and no other line is one, every poll
\* line comes after a group line, and every poll line is followed by two or
\* more option lines or by one money line with a non-negative value and
\* neither an option nor a money line after it; an option line comes only
\* after a poll line or an option line, and a money line only after a poll
\* line.  And the converters NewDefaultSkeletonConverter makes return no
\* error on any skeleton of a collection it has returned.
C29_OutlineStateMachine ==
    /\ OutlineAccepted =>
        LET lines == NonEmpty(funcCall.lines)
            n == Len(lines)
            Is(k, kinds) == k >= 1 /\ k <= n /\ lines[k] \in kinds
        IN  /\ Is(1, {TitleLine})
            /\ \A k \in 2..n : ~Is(k, {TitleLine})
            /\ \A k \in 1..n :
                /\ Is(k, {PollLine}) =>
                    /\ \E g \in 1..(k - 1) : Is(g, {GroupLine})
                    /\ \/ Is(k + 1, {OptionLine}) /\ Is(k + 2, {OptionLine})
                       \/ /\ Is(k + 1, {MoneyLine})
                          /\ ~Is(k + 2, {OptionLine, MoneyLine, NegativeMoneyLine})
                /\ Is(k, {OptionLine}) => Is(k - 1, {PollLine, OptionLine})
                /\ Is(k, {MoneyLine}) => Is(k - 1, {PollLine})
                /\ ~Is(k, {NegativeMoneyLine})
    /\ OutlineConverted =>
        \A g \in 1..Len(funcRet.res) : \A x \in 1..Len(funcRet.res[g]) :
            funcRet.res[g][x].err = NoError

\* The converter that makes a BasicPoll of two options has been applied to
\* the collection of an outline with an empty line in it, whose group holds
\* a skeleton with two options.
C29_Witness ==
    /\ OutlineConverted
    /\ funcRet.convertToBasic
    /\ Len(funcRet.collection.Groups) = 1
    /\ Len(funcRet.collection.Groups[1].Skeletons) = 1
    /\ funcRet.collection.Groups[1].Skeletons[1].SkeletonType = "basic-skeleton"
    /\ Len(funcRet.collection.Groups[1].Skeletons[1].Options) = 2
    /\ funcRet.res[1][1].poll = NewBasicPoll(<<>>)
    /\ \E k \in 1..Len(funcCall.lines) : funcCall.lines[k] \in EmptyLines

\* The outline with the line put in after its first pos lines.
InsertAt(lines, pos, line) ==
    SubSeq(lines, 1, pos) \o <<line>> \o SubSeq(lines, pos + 1, Len(lines))

\* Lines that start with #, by the way of a comment.
CommentLines == {<<"#", "c">>, <<"#", " ", "c">>, <<"#", "#", " ", "c">>}

\* C30: when ParseCollectionSkeletons returns a collection for an outline, it
\* returns the same collection for the outline with an empty line or a line
\* that starts with # put in at any position.
C30_IgnoredLines ==
    OutlineAccepted =>
        \A pos \in 0..Len(funcCall.lines) : \A line \in EmptyLines \cup CommentLines :
            ParseCollectionSkeletons(InsertAt(funcCall.lines, pos, line)) = funcRet.res

\* The half of C30 that is about empty lines.
EmptyLinesIgnored ==
    OutlineAccepted =>
        \A pos \in 0..Len(funcCall.lines) : \A line \in EmptyLines :
            ParseCollectionSkeletons(InsertAt(funcCall.lines, pos, line)) = funcRet.res

\* No line that starts with # can be put into an accepted outline at every
\* position without a change of what ParseCollectionSkeletons returns.
NoCommentLineIgnored ==
    OutlineAccepted =>
        \A line \in CommentLines : \E pos \in 0..Len(funcCall.lines) :
            ParseCollectionSkeletons(InsertAt(funcCall.lines, pos, line)) # funcRet.res

\* ------------------------------------------------------ claims on SpecPolls
\* The last operation was a TruncateVoters that followed a TruncateVoters.
TruncatedAgain(ret) == ret.op = "TruncateVoters" /\ ret.callBefore # <<>>

\* C14: for a poll of each kind, the second of two TruncateVoters calls in a
\* row returns no culprit and leaves the votes of the poll as they were.
C14_TruncateIdempotence ==
    /\ TruncatedAgain(schulzeRet) =>
        schulzeRet.culprits = <<>> /\ schulzePoll.Votes = schulzeRet.before
    /\ TruncatedAgain(medianRet) =>
        medianRet.culprits = <<>> /\ medianPoll.Votes = medianRet.before
    /\ TruncatedAgain(basicRet) =>
        basicRet.culprits = <<>> /\ basicPoll.Votes = basicRet.before

\* A Schulze poll has been truncated twice in a row and the first call has
\* returned MaxVotes - 1 culprits.
C14_Witness ==
    /\ TruncatedAgain(schulzeRet)
    /\ Len(schulzeRet.callBefore[1]) = MaxVotes - 1
    /\ Len(schulzePoll.Votes) = 1

\* -------------------------------------------------- claims on SpecFunctions
Converted == funcRet.op = "SkeletonConverter"

\* The converter returned no poll and a PollTypeError.
ConvertedTypeError ==
    funcRet.res.poll = NilPoll /\ funcRet.res.err.kind = "PollTypeError"

\* The converter returned the poll and no error.
ConvertedTo(poll) == funcRet.res.poll = poll /\ funcRet.res.err = NoError

\* C12: the default skeleton converter follows a total case table.  A money
\* skeleton with cents < 0 gives a PollTypeError and with cents >= 0 an empty
\* median poll whose ceiling is the cents and whose Sorted flag is false; a
\* choice skeleton with fewer than 2 options gives a PollTypeError, with
\* exactly 2 options and convertToBasic an empty basic poll, and with 2
\* options without convertToBasic or with more than 2 options an empty
\* Schulze poll with as many options; any other skeleton gives a
\* PollTypeError.  Every call returns either a poll or an error, never both and
\* never neither.
C12_ConverterCaseTable ==
    Converted =>
        LET skel == funcCall.skel
            flatten == funcCall.convertToBasic
        IN  /\ (funcRet.res.poll = NilPoll) # (funcRet.res.err = NoError)
            /\ IF skel.SkeletonType = "money-skeleton"
               THEN IF skel.Value.ValueCents < 0
                    THEN ConvertedTypeError
                    ELSE ConvertedTo([Value |-> skel.Value.ValueCents,
                                      Votes |-> <<>>, Sorted |-> FALSE])
               ELSE IF skel.SkeletonType = "basic-skeleton"
               THEN IF Len(skel.Options) < 2
                    THEN ConvertedTypeError
                    ELSE IF Len(skel.Options) = 2 /\ flatten
                    THEN ConvertedTo([Votes |-> <<>>])
                    ELSE ConvertedTo([NumOptions |-> Len(skel.Options),
                                      Votes |-> <<>>])
               ELSE ConvertedTypeError

\* A choice skeleton with two options has been converted to an empty basic
\* poll.
C12_Witness ==
    /\ Converted
    /\ funcCall.skel.SkeletonType = "basic-skeleton"
    /\ Len(funcCall.skel.Options) = 2
    /\ funcCall.convertToBasic
    /\ ConvertedTo(NewBasicPoll(<<>>))

Generated == funcRet.op = "GenerateVoteFromBasicAnswer"

\* The generator returned no vote and a PollTypeError.
GeneratedTypeError ==
    funcRet.res.vote = NilVote /\ funcRet.res.err.kind = "PollTypeError"

\* The generator returned a Schulze vote of the voter with the ranking.
GeneratedRanking(ranking) ==
    /\ funcRet.res.err = NoError
    /\ funcRet.res.vote.Voter = funcCall.voter
    /\ funcRet.res.vote.Ranking = ranking

\* The generator returned a median vote of the voter for the value.
GeneratedValue(value) ==
    /\ funcRet.res.err = NoError
    /\ funcRet.res.vote.Voter = funcCall.voter
    /\ funcRet.res.vote.Value = value

\* C13: GenerateVoteFromBasicAnswer of a Schulze poll with N options returns
\* for Aye the ranking of length N whose last entry is 1 and whose other
\* entries are 0, for No the ranking of length N whose last entry is 0 and
\* whose other entries are 1, and for Abstention N zeros; of a median poll it
\* returns for Aye the value of the poll, for No the value 0, and for
\* Abstention a PollTypeError and no vote.  An answer other than No, Aye and
\* Abstention gives a PollTypeError.  A vote that is returned carries the
\* voter of the call.
C13_VoteGenerator ==
    Generated =>
        LET poll == funcCall.poll
            answer == funcCall.answer
        IN  IF answer \notin {No, Aye, Abstention}
            THEN GeneratedTypeError
            ELSE IF "NumOptions" \in DOMAIN poll
            THEN LET N == poll.NumOptions
                 IN  IF answer = Aye
                     THEN GeneratedRanking([i \in 1..N |-> IF i = N THEN 1 ELSE 0])
                     ELSE IF answer = No
                     THEN GeneratedRanking([i \in 1..N |-> IF i = N THEN 0 ELSE 1])
                     ELSE GeneratedRanking([i \in 1..N |-> 0])
            ELSE IF answer = Aye THEN GeneratedValue(poll.Value)
                 ELSE IF answer = No THEN GeneratedValue(0)
                 ELSE GeneratedTypeError

\* No has been generated for a Schulze poll of MaxOptions options.
C13_Witness ==
    /\ Generated
    /\ "NumOptions" \in DOMAIN funcCall.poll
    /\ funcCall.poll.NumOptions = MaxOptions
    /\ funcCall.answer = No
    /\ funcRet.res.err = NoError
    /\ Len(funcRet.res.vote.Ranking) = MaxOptions

MajorityComputed == funcRet.op = "ComputeMajority"

\* ComputeMajority, called with the fraction num/den and the sum, has
\* returned the value.
MajorityOf(num, den, votesSum, expected) ==
    (MajorityComputed /\ funcCall.majority = NewRat(num, den)
        /\ funcCall.votesSum = votesSum) => funcRet.res = expected

\* C19: for a fraction num/den from 0 to 1 and a sum of weights total,
\* ComputeMajority returns the largest integer r with r * den <= num * total,
\* which is at least 0 and at most total.  ComputeMajority(1/2, 10) = 5,
\* (2/3, 10) = 6, (1/3, 42) = 14, (f, 0) = 0 for every f, and
\* (1, NoWeight) = NoWeight.
C19_ComputeMajority ==
    /\ MajorityComputed =>
        LET num == funcCall.majority.num
            den == funcCall.majority.den
            total == funcCall.votesSum
            r == funcRet.res
        IN  /\ 0 <= num * total - r * den
            /\ num * total - r * den < den
            /\ 0 <= r
            /\ r <= total
            /\ total = 0 => r = 0
    /\ MajorityOf(1, 2, 10, 5)
    /\ MajorityOf(2, 3, 10, 6)
    /\ MajorityOf(1, 3, 42, 14)
    /\ MajorityOf(2, 2, NoWeight, NoWeight)

\* ComputeMajority has been called with 2/3 and 10 and has dropped the
\* fractional part of 20/3.
C19_Witness ==
    /\ MajorityComputed
    /\ funcCall.majority = NewRat(2, 3)
    /\ funcCall.votesSum = 10
    /\ funcRet.res = 6

\* ---------------------------------------------------- claims on SpecSchulze
SchulzeTallied == schulzeRet.op = "Tally"

\* The weight of the edge (i, j) of the beat graph of d.
EdgeWeight(d, i, j) == IF d[i][j] > d[j][i] THEN d[i][j] ELSE 0

\* The paths from a to b over pairwise distinct options (a path that visits an
\* option twice is no stronger than the path with the loop cut out).
BeatPaths(n, a, b) ==
    {path \in UNION {[1..m -> Options(n)] : m \in 2..n} :
        /\ path[1] = a
        /\ path[Len(path)] = b
        /\ \A x, y \in 1..Len(path) : x # y => path[x] # path[y]}

PathStrength(d, path) ==
    SetMin({EdgeWeight(d, path[x], path[x + 1]) : x \in 1..(Len(path) - 1)})

StrongestBeatPath(n, d, a, b) ==
    SetMax({PathStrength(d, path) : path \in BeatPaths(n, a, b)})

\* C1: after Tally, for all distinct options a, b, P[a][b] is the weight of
\* the strongest beatpath from a to b (the largest, over the paths from a to
\* b, of the smallest edge weight of the path, an edge (i, j) weighing D[i][j]
\* when D[i][j] > D[j][i] and 0 otherwise); and P[a][b] >= min(P[a][c], P[c][b])
\* for pairwise distinct a, b, c.
C1_StrongestPath ==
    SchulzeTallied =>
        LET n == schulzePoll.NumOptions
            res == schulzeRet.res
        IN  /\ \A a, b \in Options(n) :
                a # b => res.P[a][b] = StrongestBeatPath(n, res.D, a, b)
            /\ \A a, b, c \in Options(n) :
                (a # b /\ a # c /\ b # c) =>
                    res.P[a][b] >= WeightMin(res.P[a][c], res.P[c][b])

\* A tally in which some strongest path is strictly stronger than the direct
\* edge: the widening loop changed an entry.
C1_Witness ==
    /\ SchulzeTallied
    /\ \E a, b \in Options(schulzePoll.NumOptions) :
        /\ a # b
        /\ schulzeRet.res.P[a][b] > EdgeWeight(schulzeRet.res.D, a, b)

\* The number of options that option i beats in p.
WinCount(n, p, i) == Cardinality({j \in Options(n) \ {i} : p[i][j] > p[j][i]})

\* C2: after Tally, RankedGroups is a partition of the options 0..N-1 (every
\* option is in exactly one group, once), the options of a group have the
\* same win count, the groups are in strictly decreasing win count, and
\* inside a group the options are in ascending order.
C2_RankingPartition ==
    SchulzeTallied =>
        LET n == schulzePoll.NumOptions
            p == schulzeRet.res.P
            groups == schulzeRet.res.RankedGroups
        IN  /\ \A i \in Options(n) :
                Cardinality({<<g, x>> \in (1..Len(groups)) \X (1..n) :
                    x <= Len(groups[g]) /\ groups[g][x] = i}) = 1
            /\ \A g \in 1..Len(groups) :
                /\ Len(groups[g]) > 0
                /\ \A x \in 1..Len(groups[g]) :
                    /\ groups[g][x] \in Options(n)
                    /\ WinCount(n, p, groups[g][x]) = WinCount(n, p, groups[g][1])
                /\ \A x, y \in 1..Len(groups[g]) :
                    x < y => groups[g][x] < groups[g][y]
            /\ \A g, h \in 1..Len(groups) :
                g < h => WinCount(n, p, groups[g][1]) > WinCount(n, p, groups[h][1])

\* A tally whose ranking has a group of two options and whose first-seen win
\* counts are not already in descending order (option 0 is not in the first
\* group).
C2_Witness ==
    /\ SchulzeTallied
    /\ Len(schulzeRet.res.RankedGroups) >= 2
    /\ \E g \in 1..Len(schulzeRet.res.RankedGroups) :
        Len(schulzeRet.res.RankedGroups[g]) >= 2
    /\ schulzeRet.res.RankedGroups[1][1] # 0

\* The votes of the poll whose ranking has the length N.
ValidVotes(poll) ==
    SelectSeq(poll.Votes, LAMBDA vote : Len(vote.Ranking) = poll.NumOptions)

\* C3: after Tally, for options i # j, D[i][j] is the sum of the weights of
\* the votes whose ranking has length N and ranks i strictly before j, and
\* DNonStrict[i][j] the sum of the weights of the length-N votes with
\* ranking[i] <= ranking[j]; a vote of another length adds to no entry, and
\* both diagonals are 0.
C3_PairwiseMatrices ==
    SchulzeTallied =>
        LET n == schulzePoll.NumOptions
            res == schulzeRet.res
            valid == ValidVotes(schulzePoll)
        IN  \A i, j \in Options(n) :
                IF i = j
                THEN res.D[i][j] = 0 /\ res.DNonStrict[i][j] = 0
                ELSE /\ res.D[i][j] = VotesWeight(SelectSeq(valid,
                            LAMBDA vote : At(vote.Ranking, i) < At(vote.Ranking, j)))
                     /\ res.DNonStrict[i][j] = VotesWeight(SelectSeq(valid,
                            LAMBDA vote : At(vote.Ranking, i) <= At(vote.Ranking, j)))

\* A tally of a poll that holds a weighted vote of a wrong length, a weighted
\* vote that ties two options and a weighted vote that ranks two options
\* strictly.
C3_Witness ==
    /\ SchulzeTallied
    /\ schulzePoll.NumOptions >= 2
    /\ \E x, y, z \in 1..Len(schulzePoll.Votes) :
        /\ Len(schulzePoll.Votes[x].Ranking) # schulzePoll.NumOptions
        /\ schulzePoll.Votes[x].Voter.Weight > 0
        /\ Len(schulzePoll.Votes[y].Ranking) = schulzePoll.NumOptions
        /\ schulzePoll.Votes[y].Voter.Weight > 0
        /\ At(schulzePoll.Votes[y].Ranking, 0) = At(schulzePoll.Votes[y].Ranking, 1)
        /\ Len(schulzePoll.Votes[z].Ranking) = schulzePoll.NumOptions
        /\ schulzePoll.Votes[z].Voter.Weight > 0
        /\ At(schulzePoll.Votes[z].Ranking, 0) > At(schulzePoll.Votes[z].Ranking, 1)

\* The vote has a ranking with the positions i and j and gives both the same
\* rank.
Ties(vote, i, j) ==
    /\ i < Len(vote.Ranking)
    /\ j < Len(vote.Ranking)
    /\ At(vote.Ranking, i) = At(vote.Ranking, j)

\* C17 as stated: after Tally, for options i # j, D[i][j] + D[j][i] is at most
\* the sum of the weights of all votes, and equal to it only when no vote
\* ties i and j.
C17_MatrixDuality ==
    SchulzeTallied =>
        LET res == schulzeRet.res
        IN  \A i, j \in Options(schulzePoll.NumOptions) : i # j =>
                /\ res.D[i][j] + res.D[j][i] <= VotesWeight(schulzePoll.Votes)
                /\ res.D[i][j] + res.D[j][i] = VotesWeight(schulzePoll.Votes) =>
                    \A x \in 1..Len(schulzePoll.Votes) : ~Ties(schulzePoll.Votes[x], i, j)

\* C17, amended: after Tally, for options i # j, D[i][j] + D[j][i] is at most
\* the sum of the weights of all votes, and equal to it only when no vote of a
\* weight above 0 ties i and j.
C17_MatrixDualityWeighted ==
    SchulzeTallied =>
        LET res == schulzeRet.res
        IN  \A i, j \in Options(schulzePoll.NumOptions) : i # j =>
                /\ res.D[i][j] + res.D[j][i] <= VotesWeight(schulzePoll.Votes)
                /\ res.D[i][j] + res.D[j][i] = VotesWeight(schulzePoll.Votes) =>
                    \A x \in 1..Len(schulzePoll.Votes) :
                        schulzePoll.Votes[x].Voter.Weight > 0 =>
                            ~Ties(schulzePoll.Votes[x], i, j)

\* A tally where the two entries of options 0 and 1 add up to a positive sum
\* of weights although a vote of weight 0 ties the two options, and the two
\* entries of another pair stay below the sum because a weighted vote ties
\* that pair.
C17_Witness ==
    /\ SchulzeTallied
    /\ schulzePoll.NumOptions = MaxOptions
    /\ VotesWeight(schulzePoll.Votes) > 0
    /\ schulzeRet.res.D[0][1] + schulzeRet.res.D[1][0] = VotesWeight(schulzePoll.Votes)
    /\ \E x \in 1..Len(schulzePoll.Votes) :
        /\ schulzePoll.Votes[x].Voter.Weight = 0
        /\ Ties(schulzePoll.Votes[x], 0, 1)
    /\ schulzeRet.res.D[1][2] + schulzeRet.res.D[2][1] < VotesWeight(schulzePoll.Votes)
    /\ \E x \in 1..Len(schulzePoll.Votes) :
        /\ schulzePoll.Votes[x].Voter.Weight > 0
        /\ Ties(schulzePoll.Votes[x], 1, 2)

\* C18: after Tally, WeightSum is the sum of the weights of all votes of the
\* poll, the votes whose ranking has another length than NumOptions included,
\* and D, DNonStrict and P are those of the tally of the poll without these
\* votes.
C18_WeightSumOfAllVotes ==
    SchulzeTallied =>
        LET res == schulzeRet.res
            clean == SchulzeTallyResult([schulzePoll EXCEPT !.Votes = ValidVotes(schulzePoll)])
        IN  /\ res.WeightSum = VotesWeight(schulzePoll.Votes)
            /\ res.WeightSum - clean.WeightSum =
                    VotesWeight(SelectSeq(schulzePoll.Votes,
                        LAMBDA vote : Len(vote.Ranking) # schulzePoll.NumOptions))
            /\ res.D = clean.D
            /\ res.DNonStrict = clean.DNonStrict
            /\ res.P = clean.P

\* A tally of a poll with a weighted vote of a wrong length next to a weighted
\* vote of the right length: the sum of weights is above every entry of the
\* matrices.
C18_Witness ==
    /\ SchulzeTallied
    /\ schulzePoll.NumOptions >= 2
    /\ \E x, y \in 1..Len(schulzePoll.Votes) :
        /\ Len(schulzePoll.Votes[x].Ranking) # schulzePoll.NumOptions
        /\ schulzePoll.Votes[x].Voter.Weight > 0
        /\ Len(schulzePoll.Votes[y].Ranking) = schulzePoll.NumOptions
        /\ schulzePoll.Votes[y].Voter.Weight > 0
    /\ \A i, j \in Options(schulzePoll.NumOptions) :
        schulzeRet.res.DNonStrict[i][j] < schulzeRet.res.WeightSum

\* The group of RankedGroups that holds option i.
GroupOf(groups, i) ==
    CHOOSE g \in 1..Len(groups) : \E x \in 1..Len(groups[g]) : groups[g][x] = i

\* C26: after Tally, whenever P[i][j] > P[j][i] option i is in a strictly
\* earlier group of RankedGroups than option j, and no option of the first
\* group is beaten by any option.
C26_RankingAgreesWithP ==
    SchulzeTallied =>
        LET n == schulzePoll.NumOptions
            p == schulzeRet.res.P
            groups == schulzeRet.res.RankedGroups
        IN  /\ \A i, j \in Options(n) :
                p[i][j] > p[j][i] => GroupOf(groups, i) < GroupOf(groups, j)
            /\ n > 0 =>
                \A x \in 1..Len(groups[1]) : \A j \in Options(n) :
                    ~(p[j][groups[1][x]] > p[groups[1][x]][j])

\* A tally of three options in three groups, none of them in the place of
\* its number: every pair is decided, and an option with a higher number
\* beats one with a lower.
C26_Witness ==
    /\ SchulzeTallied
    /\ schulzePoll.NumOptions = 3
    /\ Len(schulzeRet.res.RankedGroups) = 3
    /\ schulzeRet.res.RankedGroups[1][1] = 2
    /\ schulzeRet.res.RankedGroups[2][1] = 0
    /\ schulzeRet.res.P[2][0] > schulzeRet.res.P[0][2]
    /\ schulzeRet.res.P[0][1] > schulzeRet.res.P[1][0]

\* C27: after Tally, for every pair of options i # j, DNonStrict[i][j] +
\* D[j][i] is the sum of the weights of the votes whose ranking has the
\* length NumOptions, and D[i][j] <= DNonStrict[i][j].
C27_StrictNonStrictComplement ==
    SchulzeTallied =>
        LET n == schulzePoll.NumOptions
            res == schulzeRet.res
        IN  \A i, j \in Options(n) :
                i # j =>
                    /\ res.DNonStrict[i][j] + res.D[j][i]
                            = VotesWeight(ValidVotes(schulzePoll))
                    /\ res.D[i][j] <= res.DNonStrict[i][j]

\* A tally of a poll with a weighted vote of a wrong length, so that the sum
\* is below WeightSum, in which a pair of options has a weighted tie and a
\* weighted strict preference.
C27_Witness ==
    /\ SchulzeTallied
    /\ schulzePoll.NumOptions >= 2
    /\ VotesWeight(ValidVotes(schulzePoll)) < schulzeRet.res.WeightSum
    /\ \E i, j \in Options(schulzePoll.NumOptions) :
        /\ i # j
        /\ 0 < schulzeRet.res.D[i][j]
        /\ schulzeRet.res.D[i][j] < schulzeRet.res.DNonStrict[i][j]

SchulzeTruncated == schulzeRet.op = "TruncateVoters"

\* The poll as it was before the TruncateVoters that has just returned.
Untruncated == [schulzePoll EXCEPT !.Votes = schulzeRet.before]

\* C28: TruncateVoters returns exactly the votes whose ranking has a length
\* other than NumOptions, in poll order, and leaves the others in the poll in
\* their order; and a Tally that follows TruncateVoters returns the D,
\* DNonStrict, P and RankedGroups that Tally returns on the poll as it was
\* before TruncateVoters.
C28_TruncateKeepsOutcome ==
    [][/\ SchulzeTruncated' =>
            /\ schulzeRet'.culprits = SelectSeq(schulzeRet'.before,
                    LAMBDA vote : Len(vote.Ranking) # schulzePoll'.NumOptions)
            /\ schulzePoll'.Votes = SelectSeq(schulzeRet'.before,
                    LAMBDA vote : Len(vote.Ranking) = schulzePoll'.NumOptions)
       /\ (SchulzeTruncated /\ SchulzeTallied') =>
            LET truncated == schulzeRet'.res
                untruncated == SchulzeTallyResult(Untruncated)
            IN  /\ truncated.D = untruncated.D
                /\ truncated.DNonStrict = untruncated.DNonStrict
                /\ truncated.P = untruncated.P
                /\ truncated.RankedGroups = untruncated.RankedGroups
      ]_vars

\* TruncateVoters has taken two different votes out of a poll, the first and
\* the last, and kept the weighted vote between them, whose ranking decides
\* a pair of options.
C28_Witness ==
    /\ SchulzeTruncated
    /\ Len(schulzeRet.before) = 3
    /\ Len(schulzeRet.culprits) = 2
    /\ schulzeRet.culprits[1] # schulzeRet.culprits[2]
    /\ schulzeRet.culprits[1] = schulzeRet.before[1]
    /\ schulzeRet.culprits[1].Voter.Weight > 0
    /\ Len(schulzePoll.Votes) = 1
    /\ schulzePoll.Votes[1] = schulzeRet.before[2]
    /\ schulzePoll.Votes[1].Voter.Weight > 0
    /\ schulzePoll.NumOptions >= 2
    /\ At(schulzePoll.Votes[1].Ranking, 0) < At(schulzePoll.Votes[1].Ranking, 1)

====
